---------------------------- MODULE Spec2Model ----------------------------
(***************************************************************************)
(* Model of the match-telemetry aggregation pipeline of c9-scout           *)
(* (src/fe.py): the four analyzers analyze_player_weapons,                 *)
(* analyze_map_preferences, analyze_map_characters and                     *)
(* analyze_opponent_character_impact, each a fold over a batch of series   *)
(* records, and the team identity rule _is_target_team.                    *)
(* Further sections model get_series_details, the Streamlit script and the  *)
(* debug script's analyze_team_series_data.                                *)
(*                                                                         *)
(* Python values.  An attribute of a telemetry object is one of            *)
(*   NoAttr   the object has no such attribute (hasattr is False),         *)
(*   None     the attribute is there and holds None,                       *)
(*   Some(v)  the attribute holds the value v.                             *)
(* Team names are sequences of one-character strings, so that startswith   *)
(* and the substring test are computed; other names are compared only for  *)
(* equality and are TLA+ strings.  A raised exception is the flag          *)
(* "raised" of an analyzer's locals and the result Raised.                 *)
(***************************************************************************)
EXTENDS Integers, Sequences, FiniteSets, TLC

VARIABLES
    batch,          \* _series_details: the list of series records of the run
    team,           \* st.session_state.selected_team: [name, id]
    call,           \* the analyzer call in progress (fe.py:559-562), or "done"
    i,              \* 0 before the call's locals exist, else index of the next series
    run,            \* how many times the analysis section has run on this batch
    mp,             \* locals of analyze_map_preferences
    mc,             \* locals of analyze_map_characters
    oi,             \* locals of analyze_opponent_character_impact
    pw,             \* locals of analyze_player_weapons
    result,         \* what each analyzer returned in this run
    previous,       \* what each analyzer returned in the run before
    obs,            \* team-name pair handed to the team identity rule
    verdict,        \* what the team identity rule answered for obs
    fetch,          \* one call of get_series_details: ids, tasks, responses, loop
    ui,             \* the Streamlit session: session_state, widgets, caches, display
    ds              \* one call of the debug script's analyze_team_series_data

vars == <<batch, team, call, i, run, mp, mc, oi, pw, result, previous, obs, verdict, fetch, ui, ds>>

-----------------------------------------------------------------------------
(* Python values *)

NoAttr == [tag |-> "noattr"]
None == [tag |-> "none"]
Some(v) == [tag |-> "some", v |-> v]

HasAttr(a) == a.tag # "noattr"
IsSome(a) == a.tag = "some"

\* Truth value of an attribute holding None, a string or a list.
TruthySeq(a) == IsSome(a) /\ Len(a.v) > 0
\* Truth value of an attribute holding None or a TLA+ string name.
TruthyStr(a) == IsSome(a) /\ a.v # ""
\* Truth value of an attribute holding None or an integer.
TruthyInt(a) == IsSome(a) /\ a.v # 0
\* Truth value of an attribute holding None or an object.
TruthyObj(a) == IsSome(a)

PyInt(n) == [int |-> n]
PyStr(s) == [str |-> s]

Digit(d) == <<"0", "1", "2", "3", "4", "5", "6", "7", "8", "9">>[d + 1]

RECURSIVE IntToStr(_)
IntToStr(n) == IF n < 10 THEN <<Digit(n)>> ELSE IntToStr(n \div 10) \o <<Digit(n % 10)>>

\* str(x) for an int or a str.
Str(x) == IF "int" \in DOMAIN x THEN IntToStr(x.int) ELSE x.str

-----------------------------------------------------------------------------
(* str.startswith and the substring test "in" *)

StartsWith(s, p) == Len(p) <= Len(s) /\ SubSeq(s, 1, Len(p)) = p

Contains(s, p) == \E k \in 0..(Len(s) - Len(p)) : SubSeq(s, k + 1, k + Len(p)) = p

\* The rule with "==" alone: no prefix and no substring clause.
IsTargetTeamExact(team_name, target_name) ==
    IF ~(IsSome(team_name) /\ Len(team_name.v) > 0) \/ ~(IsSome(target_name) /\ Len(target_name.v) > 0)
    THEN FALSE
    ELSE team_name.v = target_name.v

\* The rule without its substring clause.
IsTargetTeamPrefix(team_name, target_name) ==
    IF ~(IsSome(team_name) /\ Len(team_name.v) > 0) \/ ~(IsSome(target_name) /\ Len(target_name.v) > 0)
    THEN FALSE
    ELSE team_name.v = target_name.v \/ StartsWith(team_name.v, target_name.v)

\* The rule with the substring clause read in either direction.
IsTargetTeamEitherWay(team_name, target_name) ==
    IF ~(IsSome(team_name) /\ Len(team_name.v) > 0) \/ ~(IsSome(target_name) /\ Len(target_name.v) > 0)
    THEN FALSE
    ELSE \/ team_name.v = target_name.v
         \/ StartsWith(team_name.v, target_name.v)
         \/ Contains(team_name.v, target_name.v)
         \/ Contains(target_name.v, team_name.v)

\* _is_target_team(team_name, target_name); the arguments are None or Some(string).
_is_target_team(team_name, target_name) ==
    IF ~(IsSome(team_name) /\ Len(team_name.v) > 0) \/ ~(IsSome(target_name) /\ Len(target_name.v) > 0)
    THEN FALSE
    ELSE \/ team_name.v = target_name.v
         \/ StartsWith(team_name.v, target_name.v)
         \/ Contains(team_name.v, target_name.v)

\* The inline test of analyze_map_characters and analyze_player_weapons for a team
\* that has a name attribute: "match", "other", or "raise" when the name is None
\* (None.startswith is an AttributeError).  The target is a string.
InlineTeamTest(team_name, target) ==
    IF ~IsSome(team_name) THEN "raise"
    ELSE IF \/ team_name.v = target
            \/ StartsWith(team_name.v, target)
            \/ Contains(team_name.v, target)
         THEN "match" ELSE "other"

\* The same test when the scouted name may be None as well: None == None holds
\* and the other clauses are not tried; str.startswith(None) is a TypeError.
InlineTeamTestOn(team_name, target_name) ==
    IF IsSome(target_name) THEN InlineTeamTest(team_name, target_name.v)
    ELSE IF team_name = target_name THEN "match"
    ELSE "raise"

-----------------------------------------------------------------------------
(* collections.Counter and dict: insertion-ordered sequences of [k, n] *)

HasKey(c, k) == \E j \in 1..Len(c) : c[j].k = k

Get(c, k) == IF HasKey(c, k) THEN (CHOOSE j \in 1..Len(c) : c[j].k = k) ELSE 0

\* c[k] of a Counter: 0 for a missing key.
Count(c, k) == IF HasKey(c, k) THEN c[Get(c, k)].n ELSE 0

\* c[k] -= n
AddSubtracting(c, k, n) ==
    IF HasKey(c, k)
    THEN [c EXCEPT ![Get(c, k)] = [k |-> k, n |-> c[Get(c, k)].n - n]]
    ELSE Append(c, [k |-> k, n |-> 0 - n])

\* c[k] += n
Add(c, k, n) ==
    IF HasKey(c, k)
    THEN [c EXCEPT ![Get(c, k)] = [k |-> k, n |-> c[Get(c, k)].n + n]]
    ELSE Append(c, [k |-> k, n |-> n])

RECURSIVE SumCounts(_)
SumCounts(c) == IF c = <<>> THEN 0 ELSE c[1].n + SumCounts(Tail(c))

\* The insertion of an unstable sort: e goes in front of the entries of equal count.
RECURSIVE InsertDescBeforeTies(_, _)
InsertDescBeforeTies(s, e) ==
    IF s = <<>> THEN <<e>>
    ELSE IF s[1].n > e.n THEN <<s[1]>> \o InsertDescBeforeTies(Tail(s), e)
    ELSE <<e>> \o s

\* Insert e into the descending list s behind every entry whose count is >= e.n.
RECURSIVE InsertDesc(_, _)
InsertDesc(s, e) ==
    IF s = <<>> THEN <<e>>
    ELSE IF s[1].n >= e.n THEN <<s[1]>> \o InsertDesc(Tail(s), e)
    ELSE <<e>> \o s

\* sorted(items, key=count, reverse=True): stable, equal counts keep insertion order.
RECURSIVE SortDesc(_)
SortDesc(c) == IF c = <<>> THEN <<>> ELSE InsertDesc(SortDesc(SubSeq(c, 1, Len(c) - 1)), c[Len(c)])

Take(s, n) == SubSeq(s, 1, IF Len(s) < n THEN Len(s) ELSE n)

RECURSIVE Reverse(_)
Reverse(s) == IF s = <<>> THEN <<>> ELSE Append(Reverse(Tail(s)), s[1])

\* The first n entries of the counter as they stand, unsorted.
MostCommonUnsorted(c, n) == Take(c, n)

\* Counter.most_common(n) and Counter.most_common()
MostCommon(c, n) == Take(SortDesc(c), n)
MostCommonAll(c) == SortDesc(c)

-----------------------------------------------------------------------------
(* Shared helpers of the folds *)

RECURSIVE FoldSeq(_, _, _)
FoldSeq(Op(_, _), acc, s) ==
    IF s = <<>> THEN acc ELSE FoldSeq(Op, Op(acc, s[1]), Tail(s))

\* An exception leaves the loops: the locals are marked and no later step changes them.
Raise(l) == [l EXCEPT !.raised = TRUE]

\* What a call that raised hands to its caller.
Raised == [raised |-> TRUE]

\* round(a / b, 0) on exact quotients: to the nearest integer, ties to even.
RoundDiv(a, b) ==
    LET q == a \div b
        r == a % b
    IN  IF 2 * r < b THEN q
        ELSE IF 2 * r > b THEN q + 1
        ELSE IF q % 2 = 0 THEN q ELSE q + 1

\* round(a / b, 1), in tenths.
RoundTenths(a, b) == RoundDiv(10 * a, b)

\* round(a / b, 2), in hundredths.
RoundHundredths(a, b) == RoundDiv(100 * a, b)

TitleCode == "val"
TopMaps == 5
TopWeapons == 3

-----------------------------------------------------------------------------
(* The series filter: "Only analyze Valorant series" *)

\* The filter without the comparison of the short code with "val".
SeriesFilterAnyCode(series) ==
    IF ~TruthyObj(series.series_state) THEN FALSE
    ELSE LET st == series.series_state.v
         IN  IF ~HasAttr(st.title) \/ ~TruthyObj(st.title) THEN FALSE
             ELSE HasAttr(st.title.v.name_shortened)

\* TRUE when the series passes, i.e. the analyzer does not "continue".
SeriesFilter(series) ==
    IF ~TruthyObj(series.series_state) THEN FALSE
    ELSE LET st == series.series_state.v
         IN  IF ~HasAttr(st.title) \/ ~TruthyObj(st.title) THEN FALSE
             ELSE IF ~HasAttr(st.title.v.name_shortened) THEN FALSE
             ELSE st.title.v.name_shortened = Some(TitleCode)

\* The same filter as analyze_opponent_character_impact writes it, with getattr.
SeriesFilterGetattr(series) ==
    IF ~TruthyObj(series.series_state) THEN FALSE
    ELSE LET st == series.series_state.v
         IN  IF ~HasAttr(st.title) \/ ~TruthyObj(st.title) THEN FALSE
             ELSE LET code == IF HasAttr(st.title.v.name_shortened)
                              THEN st.title.v.name_shortened ELSE None
                  IN  code = Some(TitleCode)

\* series.series_state.games is None or empty: "continue".
NoGames(series) == ~TruthySeq(series.series_state.v.games)

-----------------------------------------------------------------------------
(* analyze_map_preferences *)

MapPrefsLocals == [map_bans |-> <<>>, map_picks |-> <<>>, total_actions |-> 0, raised |-> FALSE]

\* The draft action counted whoever the drafter is.
MapPrefsActionAnyDrafter(l, a, target_id) ==
    LET l1 == [l EXCEPT !.total_actions = @ + 1]
        map_name == IF IsSome(a.draftable) /\ HasAttr(a.draftable.v.name)
                    THEN a.draftable.v.name ELSE None
    IN  IF HasAttr(a.type) /\ TruthyStr(map_name)
        THEN IF a.type = Some("ban") THEN [l1 EXCEPT !.map_bans = Add(@, map_name.v, 1)]
             ELSE IF a.type = Some("pick") THEN [l1 EXCEPT !.map_picks = Add(@, map_name.v, 1)]
             ELSE l1
        ELSE l1

\* The draft action counted only when its type and map name are there: total_actions
\* incremented next to the ban and pick counters.
MapPrefsActionCountingComplete(l, a, target_id) ==
    IF /\ HasAttr(a.drafter) /\ TruthyObj(a.drafter)
       /\ HasAttr(a.drafter.v.id)
       /\ Str(a.drafter.v.id.v) = Str(target_id)
    THEN LET map_name == IF IsSome(a.draftable) /\ HasAttr(a.draftable.v.name)
                         THEN a.draftable.v.name ELSE None
         IN  IF HasAttr(a.type) /\ HasAttr(a.draftable) /\ TruthyStr(map_name)
             THEN LET l1 == [l EXCEPT !.total_actions = @ + 1]
                  IN  IF a.type = Some("ban") THEN [l1 EXCEPT !.map_bans = Add(@, map_name.v, 1)]
                      ELSE IF a.type = Some("pick") THEN [l1 EXCEPT !.map_picks = Add(@, map_name.v, 1)]
                      ELSE l1
             ELSE l
    ELSE l

\* One draft action of a series.
MapPrefsAction(l, a, target_id) ==
    IF /\ HasAttr(a.drafter) /\ TruthyObj(a.drafter)
       /\ HasAttr(a.drafter.v.id)
       /\ Str(a.drafter.v.id.v) = Str(target_id)
    THEN LET l1 == [l EXCEPT !.total_actions = @ + 1]
         IN  IF HasAttr(a.type) /\ HasAttr(a.draftable)
             THEN LET map_name == IF IsSome(a.draftable) /\ HasAttr(a.draftable.v.name)
                                  THEN a.draftable.v.name ELSE None
                  IN  IF TruthyStr(map_name)
                      THEN IF a.type = Some("ban")
                           THEN [l1 EXCEPT !.map_bans = Add(@, map_name.v, 1)]
                           ELSE IF a.type = Some("pick")
                           THEN [l1 EXCEPT !.map_picks = Add(@, map_name.v, 1)]
                           ELSE l1
                      ELSE l1
             ELSE l1
    ELSE l

\* The body of "for series in _series_details".
MapPrefsSeries(l, series, target_id) ==
    IF l.raised THEN l
    ELSE IF ~SeriesFilter(series) THEN l
    ELSE LET st == series.series_state.v
         IN  IF ~HasAttr(st.draft_actions) THEN l
             ELSE IF ~IsSome(st.draft_actions) THEN Raise(l)
             ELSE FoldSeq(LAMBDA x, a : MapPrefsAction(x, a, target_id), l, st.draft_actions.v)

\* "Calculate preferences" and the returned dict.
MapPrefsReturn(l) ==
    IF l.raised THEN Raised
    ELSE [total_actions |-> l.total_actions,
          map_bans |-> l.map_bans,
          map_picks |-> l.map_picks,
          most_banned_maps |-> MostCommon(l.map_bans, TopMaps),
          most_picked_maps |-> MostCommon(l.map_picks, TopMaps),
          least_banned_maps |-> Take(Reverse(MostCommonAll(l.map_bans)), TopMaps),
          total_bans |-> SumCounts(l.map_bans),
          total_picks |-> SumCounts(l.map_picks)]

\* The whole call on a batch.
analyze_map_preferences(series_details, target_id) ==
    MapPrefsReturn(FoldSeq(LAMBDA x, s : MapPrefsSeries(x, s, target_id), MapPrefsLocals, series_details))

-----------------------------------------------------------------------------
(* analyze_map_characters *)

MapCharsLocals == [map_characters |-> <<>>, raised |-> FALSE]

\* map_characters[map_name][char_name] += 1 on a defaultdict(Counter):
\* a sequence of [k |-> map, chars |-> Counter].
AddMapChar(m, map_name, char_name) ==
    IF HasKey(m, map_name)
    THEN [m EXCEPT ![Get(m, map_name)].chars = Add(@, char_name, 1)]
    ELSE Append(m, [k |-> map_name, chars |-> Add(<<>>, char_name, 1)])

\* One player of the matching team.
MapCharsPlayer(l, player, map_name) ==
    IF /\ HasAttr(player.character) /\ TruthyObj(player.character)
       /\ HasAttr(player.character.v.name)
       /\ TruthyStr(player.character.v.name)
    THEN [l EXCEPT !.map_characters = AddMapChar(@, map_name, player.character.v.name.v)]
    ELSE l

\* The loop over game.teams without its break: every matching team is counted.
RECURSIVE MapCharsTeamsAllMatching(_, _, _, _, _)
MapCharsTeamsAllMatching(l, teams, j, map_name, target) ==
    IF j > Len(teams) \/ l.raised THEN l
    ELSE LET t == teams[j]
         IN  IF ~HasAttr(t.name) THEN MapCharsTeamsAllMatching(l, teams, j + 1, map_name, target)
             ELSE LET test == InlineTeamTest(t.name, target)
                  IN  IF test = "raise" THEN Raise(l)
                      ELSE IF test = "other"
                      THEN MapCharsTeamsAllMatching(l, teams, j + 1, map_name, target)
                      ELSE IF ~IsSome(t.players) THEN Raise(l)
                      ELSE MapCharsTeamsAllMatching(
                               FoldSeq(LAMBDA x, p : MapCharsPlayer(x, p, map_name), l, t.players.v),
                               teams, j + 1, map_name, target)

\* "for team in game.teams" from team j on, with its break after the first match.
RECURSIVE MapCharsTeams(_, _, _, _, _)
MapCharsTeams(l, teams, j, map_name, target) ==
    IF j > Len(teams) THEN l
    ELSE LET t == teams[j]
         IN  IF ~HasAttr(t.name) THEN MapCharsTeams(l, teams, j + 1, map_name, target)
             ELSE LET test == InlineTeamTest(t.name, target)
                  IN  IF test = "raise" THEN Raise(l)
                      ELSE IF test = "other"
                      THEN MapCharsTeams(l, teams, j + 1, map_name, target)
                      ELSE IF ~IsSome(t.players) THEN Raise(l)
                      ELSE FoldSeq(LAMBDA x, p : MapCharsPlayer(x, p, map_name), l, t.players.v)

\* The body of "for game in series.series_state.games".
MapCharsGame(l, game, target) ==
    IF l.raised THEN l
    ELSE LET map_name == IF /\ HasAttr(game.map) /\ TruthyObj(game.map)
                            /\ HasAttr(game.map.v.name)
                         THEN game.map.v.name ELSE None
         IN  IF ~TruthyStr(map_name) THEN l
             ELSE IF ~IsSome(game.teams) THEN Raise(l)
             ELSE MapCharsTeams(l, game.teams.v, 1, map_name.v, target)

\* The body of "for series in _series_details".
MapCharsSeries(l, series, target) ==
    IF l.raised THEN l
    ELSE IF ~SeriesFilter(series) THEN l
    ELSE IF NoGames(series) THEN l
    ELSE FoldSeq(LAMBDA x, g : MapCharsGame(x, g, target), l, series.series_state.v.games.v)

\* "Convert to map_name -> list of (character, count) sorted by count desc".
MapCharsReturn(l) ==
    IF l.raised THEN Raised
    ELSE [by_map |-> [j \in 1..Len(l.map_characters) |->
                         [k |-> l.map_characters[j].k,
                          chars |-> MostCommonAll(l.map_characters[j].chars)]]]

analyze_map_characters(series_details, target) ==
    MapCharsReturn(FoldSeq(LAMBDA x, s : MapCharsSeries(x, s, target), MapCharsLocals, series_details))

-----------------------------------------------------------------------------
(* analyze_opponent_character_impact *)

\* opponent_team keeps the name attribute of the team the last game chose, None when
\* the game found none, NoAttr while the name is unbound.
OppImpactLocals == [char_stats |-> <<>>, opponent_team |-> NoAttr, raised |-> FALSE]

\* getattr(obj, "attr", []) or []
ListOrEmpty(a) == IF IsSome(a) THEN a.v ELSE <<>>

\* getattr(obj, "attr", 0) or 0
IntOrZero(a) == IF IsSome(a) THEN a.v ELSE 0

\* "Identify opponent team": index of the first team with a name attribute that is
\* not the scouted team, 0 when there is none.
OpponentIndex(teams, target) ==
    LET hit(j) == HasAttr(teams[j].name) /\ ~_is_target_team(teams[j].name, Some(target))
    IN  IF \E j \in 1..Len(teams) : hit(j)
        THEN CHOOSE j \in 1..Len(teams) : hit(j) /\ \A h \in 1..(j - 1) : ~hit(h)
        ELSE 0

\* player_to_char[p.name] = p.character.name, a dict as a sequence of [k, c].
PlayerToChar(d, p) ==
    IF /\ HasAttr(p.name) /\ HasAttr(p.character) /\ TruthyObj(p.character)
       /\ HasAttr(p.character.v.name)
    THEN IF HasKey(d, p.name)
         THEN [d EXCEPT ![Get(d, p.name)].c = p.character.v.name]
         ELSE Append(d, [k |-> p.name, c |-> p.character.v.name])
    ELSE d

\* One player of the opponent team of a segment; kd is [kills, damage], two Counters.
OppSegPlayer(kd, seg_player) ==
    LET pname == IF HasAttr(seg_player.name) THEN seg_player.name ELSE None
    IN  IF ~IsSome(pname) THEN kd
        ELSE [kills |-> Add(kd.kills, pname, IntOrZero(seg_player.kills)),
              damage |-> Add(kd.damage, pname, IntOrZero(seg_player.damage_dealt))]

\* "for seg_team in segment.teams" from team j on, with its break.
RECURSIVE OppSegTeams(_, _, _, _)
OppSegTeams(kd, teams, j, target) ==
    IF j > Len(teams) THEN kd
    ELSE LET t == teams[j]
         IN  IF ~HasAttr(t.name) \/ _is_target_team(t.name, Some(target))
             THEN OppSegTeams(kd, teams, j + 1, target)
             ELSE FoldSeq(OppSegPlayer, kd, ListOrEmpty(t.players))

OppSegment(kd, segment, target) == OppSegTeams(kd, ListOrEmpty(segment.teams), 1, target)

EmptyStats(char_name) ==
    [k |-> char_name, games_played |-> 0, total_kills |-> 0, total_damage |-> 0, total_rounds |-> 0]

\* char_stats[char_name][...] += ... for one opponent player of one game.
AddCharStats(cs, char_name, k, d, rounds) ==
    LET cs1 == IF HasKey(cs, char_name) THEN cs ELSE Append(cs, EmptyStats(char_name))
        at == Get(cs1, char_name)
    IN  [cs1 EXCEPT ![at] = [k |-> char_name,
                             games_played |-> cs1[at].games_played + 1,
                             total_kills |-> cs1[at].total_kills + k,
                             total_damage |-> cs1[at].total_damage + d,
                             total_rounds |-> cs1[at].total_rounds + rounds]]

\* The body of "for game in series.series_state.games".
OppImpactGame(l, game, target) ==
    IF l.raised THEN l
    ELSE IF ~HasAttr(game.teams) THEN Raise(l)
    ELSE IF ~TruthySeq(game.teams) THEN l
    ELSE IF Len(game.teams.v) < 2 THEN l
    ELSE LET o == OpponentIndex(game.teams.v, target)
         IN  IF o = 0 THEN [l EXCEPT !.opponent_team = None]
             ELSE LET opponent_team == game.teams.v[o]
                      l0 == [l EXCEPT !.opponent_team = Some(opponent_team.name)]
                  IN  IF ~HasAttr(opponent_team.players) THEN l0
                      ELSE IF ~IsSome(opponent_team.players) THEN Raise(l0)
                      ELSE LET player_to_char == FoldSeq(PlayerToChar, <<>>, opponent_team.players.v)
                               segments == ListOrEmpty(game.segments)
                               kd == FoldSeq(LAMBDA x, sg : OppSegment(x, sg, target),
                                             [kills |-> <<>>, damage |-> <<>>], segments)
                               rounds_this_game == Len(segments)
                           IN  IF player_to_char = <<>> THEN l0
                               ELSE [l0 EXCEPT !.char_stats =
                                        FoldSeq(LAMBDA cs, e : AddCharStats(cs, e.c, Count(kd.kills, e.k),
                                                                            Count(kd.damage, e.k),
                                                                            rounds_this_game),
                                                @, player_to_char)]

\* The body of "for series in _series_details".
OppImpactSeries(l, series, target) ==
    IF l.raised THEN l
    ELSE IF ~SeriesFilterGetattr(series) THEN l
    ELSE IF NoGames(series) THEN l
    ELSE FoldSeq(LAMBDA x, g : OppImpactGame(x, g, target), l, series.series_state.v.games.v)

\* One row of the ranked list; the averages are kept as integers:
\* avg_kills_per_game in tenths, avg_damage_per_round in units.
OppImpactRow(s) ==
    [character |-> s.k,
     games_played |-> s.games_played,
     avg_kills_per_game |-> RoundTenths(s.total_kills, s.games_played),
     avg_damage_per_round |-> RoundDiv(s.total_damage, IF s.total_rounds = 0 THEN 1 ELSE s.total_rounds),
     total_kills |-> s.total_kills,
     total_damage |-> s.total_damage,
     total_rounds |-> s.total_rounds]

\* x sorts at or before y under key (avg_kills_per_game, avg_damage_per_round), reverse=True.
ImpactGeq(x, y) ==
    \/ x.avg_kills_per_game > y.avg_kills_per_game
    \/ /\ x.avg_kills_per_game = y.avg_kills_per_game
       /\ x.avg_damage_per_round >= y.avg_damage_per_round

RECURSIVE InsertImpact(_, _)
InsertImpact(s, e) ==
    IF s = <<>> THEN <<e>>
    ELSE IF ImpactGeq(s[1], e) THEN <<s[1]>> \o InsertImpact(Tail(s), e)
    ELSE <<e>> \o s

\* result.sort(key=..., reverse=True): stable.
RECURSIVE SortImpact(_)
SortImpact(r) == IF r = <<>> THEN <<>> ELSE InsertImpact(SortImpact(SubSeq(r, 1, Len(r) - 1)), r[Len(r)])

\* "Build ranked list" and the sort.
OppImpactReturn(l) ==
    IF l.raised THEN Raised
    ELSE LET played == SelectSeq(l.char_stats, LAMBDA s : s.games_played # 0)
         IN  [ranking |-> SortImpact([j \in 1..Len(played) |-> OppImpactRow(played[j])])]

analyze_opponent_character_impact(series_details, target) ==
    OppImpactReturn(FoldSeq(LAMBDA x, s : OppImpactSeries(x, s, target), OppImpactLocals, series_details))

-----------------------------------------------------------------------------
(* analyze_player_weapons *)

PlayerWeaponsLocals ==
    [player_weapons |-> <<>>,           \* [k |-> player, w |-> Counter of weapons]
     player_series_count |-> <<>>,      \* Counter of players
     player_kills_by_side |-> <<>>,     \* [k |-> player, side |-> Counter, rounds |-> Counter]
     player_damage_dealt |-> <<>>,      \* [k |-> player, total_damage_dealt, rounds]
     raised |-> FALSE]

\* str.lower() on the side names the telemetry carries.
Lower(s) ==
    CASE s = "Attacker" -> "attacker"
      [] s = "ATTACKER" -> "attacker"
      [] s = "Defender" -> "defender"
      [] s = "DEFENDER" -> "defender"
      [] OTHER -> s

\* side = (getattr(team, 'side', None) or '').lower(), None unless attacker or defender.
SideOf(t) ==
    LET side == Lower(IF IsSome(t.side) THEN t.side.v ELSE "")
    IN  IF side \in {"attacker", "defender"} THEN Some(side) ELSE None

\* The name test guarding a team of a game or of a segment:
\* hasattr(team, 'name') and (name == target or name.startswith(target) or target in name).
WeaponsTeamTest(t, target) ==
    IF ~HasAttr(t.name) THEN "other" ELSE InlineTeamTest(t.name, target)

\* The roster kept as a list: a name is appended each time it is seen.
RECURSIVE RosterPlayersList(_, _)
RosterPlayersList(sp, players) ==
    IF players = <<>> \/ sp.raised THEN sp
    ELSE IF ~HasAttr(players[1].name) THEN Raise(sp)
    ELSE RosterPlayersList([sp EXCEPT !.names = Append(@, players[1].name)], Tail(players))

\* First pass, one team: series_players.add(player.name); sp is [names, raised].
RECURSIVE RosterPlayers(_, _)
RosterPlayers(sp, players) ==
    IF players = <<>> \/ sp.raised THEN sp
    ELSE IF ~HasAttr(players[1].name) THEN Raise(sp)
    ELSE RosterPlayers([sp EXCEPT !.names = IF \E j \in 1..Len(@) : @[j] = players[1].name
                                            THEN @ ELSE Append(@, players[1].name)],
                       Tail(players))

RosterTeam(sp, t, target) ==
    IF sp.raised THEN sp
    ELSE LET test == WeaponsTeamTest(t, target)
         IN  IF test = "raise" THEN Raise(sp)
             ELSE IF test = "other" THEN sp
             ELSE IF ~IsSome(t.players) THEN Raise(sp)
             ELSE RosterPlayers(sp, t.players.v)

RosterSegment(sp, segment, target) ==
    IF sp.raised THEN sp
    ELSE IF ~IsSome(segment.teams) THEN Raise(sp)
    ELSE FoldSeq(LAMBDA x, t : RosterTeam(x, t, target), sp, segment.teams.v)

\* "First pass: collect all players from target team in this series", one game.
RosterGame(sp, game, target) ==
    IF sp.raised THEN sp
    ELSE IF ~IsSome(game.teams) THEN Raise(sp)
    ELSE LET sp1 == FoldSeq(LAMBDA x, t : RosterTeam(x, t, target), sp, game.teams.v)
         IN  IF sp1.raised THEN sp1
             ELSE IF ~IsSome(game.segments) THEN Raise(sp1)
             ELSE FoldSeq(LAMBDA x, sg : RosterSegment(x, sg, target), sp1, game.segments.v)

SeriesPlayers(series, target) ==
    FoldSeq(LAMBDA x, g : RosterGame(x, g, target), [names |-> <<>>, raised |-> FALSE],
            series.series_state.v.games.v)

\* player_weapons[player_name][weapon_name] += count
AddWeapon(m, player_name, weapon_name, n) ==
    IF HasKey(m, player_name)
    THEN [m EXCEPT ![Get(m, player_name)].w = Add(@, weapon_name, n)]
    ELSE Append(m, [k |-> player_name, w |-> Add(<<>>, weapon_name, n)])

WeaponKill(l, player_name, wk) ==
    IF TruthyStr(wk.weapon_name) /\ TruthyInt(wk.count)
    THEN [l EXCEPT !.player_weapons = AddWeapon(@, player_name, wk.weapon_name.v, wk.count.v)]
    ELSE l

\* "if hasattr(player, 'weapon_kills'): for weapon_kill in player.weapon_kills"
WeaponKills(l, player) ==
    IF ~HasAttr(player.weapon_kills) THEN l
    ELSE IF ~IsSome(player.weapon_kills) THEN Raise(l)
    ELSE FoldSeq(LAMBDA x, wk : WeaponKill(x, player.name, wk), l, player.weapon_kills.v)

\* Second pass, one player of a game-level team.
WeaponsGamePlayer(l, player, series_players) ==
    IF l.raised THEN l
    ELSE IF ~HasAttr(player.name) THEN Raise(l)
    ELSE IF \E j \in 1..Len(series_players) : series_players[j] = player.name
    THEN WeaponKills(l, player)
    ELSE l

WeaponsGameTeam(l, t, target, series_players) ==
    IF l.raised THEN l
    ELSE LET test == WeaponsTeamTest(t, target)
         IN  IF test = "raise" THEN Raise(l)
             ELSE IF test = "other" THEN l
             ELSE IF ~IsSome(t.players) THEN Raise(l)
             ELSE FoldSeq(LAMBDA x, p : WeaponsGamePlayer(x, p, series_players), l, t.players.v)

\* player_kills_by_side[player_name][side]['kills'] += kills; ['rounds'] += 1
AddSideKills(m, player_name, side, kills) ==
    LET m1 == IF HasKey(m, player_name) THEN m
              ELSE Append(m, [k |-> player_name, kills |-> <<>>, rounds |-> <<>>])
        at == Get(m1, player_name)
    IN  [m1 EXCEPT ![at].kills = Add(@, side, kills), ![at].rounds = Add(@, side, 1)]

\* player_damage_dealt[player_name]['total_damage_dealt'] += damage; ['rounds'] += 1
AddDamage(m, player_name, damage) ==
    LET m1 == IF HasKey(m, player_name) THEN m
              ELSE Append(m, [k |-> player_name, total_damage_dealt |-> 0, rounds |-> 0])
        at == Get(m1, player_name)
    IN  [m1 EXCEPT ![at].total_damage_dealt = @ + damage, ![at].rounds = @ + 1]

\* "Track kills by side": player.kills holding None makes += raise.
SideKills(l, player, side) ==
    IF l.raised THEN l
    ELSE IF IsSome(side) /\ HasAttr(player.kills)
    THEN IF ~IsSome(player.kills) THEN Raise(l)
         ELSE [l EXCEPT !.player_kills_by_side = AddSideKills(@, player.name, side.v, player.kills.v)]
    ELSE l

\* The damage tracking with "if player.damage_dealt" for its guard: a round of zero
\* damage is not counted.
DamageDealtIfTruthy(l, player) ==
    IF l.raised THEN l
    ELSE IF ~HasAttr(player.damage_dealt) \/ ~TruthyInt(player.damage_dealt) THEN l
    ELSE [l EXCEPT !.player_damage_dealt = AddDamage(@, player.name, player.damage_dealt.v)]

\* "Track damage dealt per round": every round whose player has the attribute counts;
\* damage_dealt holding None makes += raise.
DamageDealt(l, player) ==
    IF l.raised THEN l
    ELSE IF HasAttr(player.damage_dealt)
    THEN IF ~IsSome(player.damage_dealt) THEN Raise(l)
         ELSE [l EXCEPT !.player_damage_dealt = AddDamage(@, player.name, player.damage_dealt.v)]
    ELSE l

\* A player of a segment-level team with the weapon tally of the round left out.
WeaponsSegPlayerNoTally(l, player, side, series_players) ==
    IF l.raised THEN l
    ELSE IF ~HasAttr(player.name) THEN Raise(l)
    ELSE IF \E j \in 1..Len(series_players) : series_players[j] = player.name
    THEN DamageDealt(SideKills(l, player, side), player)
    ELSE l

\* Second pass, one player of a segment-level team.
WeaponsSegPlayer(l, player, side, series_players) ==
    IF l.raised THEN l
    ELSE IF ~HasAttr(player.name) THEN Raise(l)
    ELSE IF \E j \in 1..Len(series_players) : series_players[j] = player.name
    THEN DamageDealt(SideKills(WeaponKills(l, player), player, side), player)
    ELSE l

WeaponsSegTeam(l, t, target, series_players) ==
    IF l.raised THEN l
    ELSE LET test == WeaponsTeamTest(t, target)
         IN  IF test = "raise" THEN Raise(l)
             ELSE IF test = "other" THEN l
             ELSE IF ~IsSome(t.players) THEN Raise(l)
             ELSE FoldSeq(LAMBDA x, p : WeaponsSegPlayer(x, p, SideOf(t), series_players), l, t.players.v)

\* "Also check segment-level data for additional weapon info and side-based kills".
WeaponsSegment(l, segment, target, series_players) ==
    IF l.raised THEN l
    ELSE IF ~IsSome(segment.teams) THEN Raise(l)
    ELSE FoldSeq(LAMBDA x, t : WeaponsSegTeam(x, t, target, series_players), l, segment.teams.v)

\* "Second pass: collect weapon data", one game.
WeaponsGame(l, game, target, series_players) ==
    IF l.raised THEN l
    ELSE IF ~IsSome(game.teams) THEN Raise(l)
    ELSE LET l1 == FoldSeq(LAMBDA x, t : WeaponsGameTeam(x, t, target, series_players), l, game.teams.v)
         IN  IF l1.raised THEN l1
             ELSE IF ~IsSome(game.segments) THEN Raise(l1)
             ELSE FoldSeq(LAMBDA x, sg : WeaponsSegment(x, sg, target, series_players), l1, game.segments.v)

\* "Count this series for all players who participated".
CountSeries(l, series_players) ==
    [l EXCEPT !.player_series_count = FoldSeq(LAMBDA c, name : Add(c, name, 1), @, series_players)]

\* The body of "for series in _series_details".
PlayerWeaponsSeries(l, series, target) ==
    IF l.raised THEN l
    ELSE IF ~SeriesFilter(series) THEN l
    ELSE IF NoGames(series) THEN l
    ELSE LET sp == SeriesPlayers(series, target)
         IN  IF sp.raised THEN Raise(l)
             ELSE FoldSeq(LAMBDA x, g : WeaponsGame(x, g, target, sp.names),
                          CountSeries(l, sp.names), series.series_state.v.games.v)

\* side_stats[side] for one player: avg_kills in hundredths.
SideStats(l, player_name, side) ==
    LET has == HasKey(l.player_kills_by_side, player_name)
        e == l.player_kills_by_side[Get(l.player_kills_by_side, player_name)]
        kills == IF has THEN Count(e.kills, side) ELSE 0
        rounds == IF has THEN Count(e.rounds, side) ELSE 0
    IN  [kills |-> kills, rounds |-> rounds,
         avg_kills |-> IF rounds > 0 THEN RoundHundredths(kills, rounds) ELSE 0]

\* The entry of a player with total_kills summed over the top weapons only.
PlayerEntryTopWeaponsTotal(l, e) ==
    LET top_weapons == MostCommon(e.w, TopWeapons)
        hasdmg == HasKey(l.player_damage_dealt, e.k)
        dmg == l.player_damage_dealt[Get(l.player_damage_dealt, e.k)]
        total_dmg == IF hasdmg THEN dmg.total_damage_dealt ELSE 0
        rounds_with_dmg == IF hasdmg THEN dmg.rounds ELSE 0
    IN  [player |-> e.k,
         series_played |-> Count(l.player_series_count, e.k),
         total_kills |-> SumCounts(top_weapons),
         preferred_weapon |-> IF top_weapons # <<>> THEN Some(top_weapons[1].k) ELSE None,
         preferred_weapon_kills |-> IF top_weapons # <<>> THEN top_weapons[1].n ELSE 0,
         weapon_breakdown |-> top_weapons,
         all_weapons |-> e.w,
         kills_by_side |-> [attacker |-> SideStats(l, e.k, "attacker"),
                            defender |-> SideStats(l, e.k, "defender")],
         total_damage_dealt |-> total_dmg,
         rounds_with_damage_data |-> rounds_with_dmg,
         avg_damage_dealt_per_round |-> IF rounds_with_dmg > 0
                                        THEN RoundTenths(total_dmg, rounds_with_dmg) ELSE 0]

\* player_analysis[player_name]: avg_damage_dealt_per_round in tenths.
PlayerEntry(l, e) ==
    LET top_weapons == MostCommon(e.w, TopWeapons)
        hasdmg == HasKey(l.player_damage_dealt, e.k)
        dmg == l.player_damage_dealt[Get(l.player_damage_dealt, e.k)]
        total_dmg == IF hasdmg THEN dmg.total_damage_dealt ELSE 0
        rounds_with_dmg == IF hasdmg THEN dmg.rounds ELSE 0
    IN  [player |-> e.k,
         series_played |-> Count(l.player_series_count, e.k),
         total_kills |-> SumCounts(e.w),
         preferred_weapon |-> IF top_weapons # <<>> THEN Some(top_weapons[1].k) ELSE None,
         preferred_weapon_kills |-> IF top_weapons # <<>> THEN top_weapons[1].n ELSE 0,
         weapon_breakdown |-> top_weapons,
         all_weapons |-> e.w,
         kills_by_side |-> [attacker |-> SideStats(l, e.k, "attacker"),
                            defender |-> SideStats(l, e.k, "defender")],
         total_damage_dealt |-> total_dmg,
         rounds_with_damage_data |-> rounds_with_dmg,
         avg_damage_dealt_per_round |-> IF rounds_with_dmg > 0
                                        THEN RoundTenths(total_dmg, rounds_with_dmg) ELSE 0]

\* The returned dict with the averages divided without a guard: a side without
\* rounds, or a player without damage data, raises ZeroDivisionError.
PlayerWeaponsReturnUnguarded(l) ==
    IF l.raised THEN Raised
    ELSE LET kept == SelectSeq(l.player_weapons, LAMBDA e : SumCounts(e.w) > 0)
             entries == [j \in 1..Len(kept) |-> PlayerEntry(l, kept[j])]
         IN  IF \E j \in 1..Len(entries) :
                    \/ entries[j].kills_by_side.attacker.rounds = 0
                    \/ entries[j].kills_by_side.defender.rounds = 0
                    \/ entries[j].rounds_with_damage_data = 0
             THEN Raised
             ELSE [total_players_analyzed |-> Len(kept), player_analysis |-> entries]

\* The returned dict built over every player counted in a series, whether or not a
\* weapon kill was credited to the player.
PlayerWeaponsReturnAllRostered(l) ==
    IF l.raised THEN Raised
    ELSE LET kept == [j \in 1..Len(l.player_series_count) |->
                         LET name == l.player_series_count[j].k
                         IN  [k |-> name,
                              w |-> IF HasKey(l.player_weapons, name)
                                    THEN l.player_weapons[Get(l.player_weapons, name)].w
                                    ELSE <<>>]]
         IN  [total_players_analyzed |-> Len(kept),
              player_analysis |-> [j \in 1..Len(kept) |-> PlayerEntry(l, kept[j])]]

\* "Calculate preferred weapons and side stats for each player" and the returned dict.
PlayerWeaponsReturn(l) ==
    IF l.raised THEN Raised
    ELSE LET kept == SelectSeq(l.player_weapons, LAMBDA e : SumCounts(e.w) > 0)
         IN  [total_players_analyzed |-> Len(kept),
              player_analysis |-> [j \in 1..Len(kept) |-> PlayerEntry(l, kept[j])]]

analyze_player_weapons(series_details, target) ==
    PlayerWeaponsReturn(FoldSeq(LAMBDA x, s : PlayerWeaponsSeries(x, s, target),
                                PlayerWeaponsLocals, series_details))

-----------------------------------------------------------------------------
(* The telemetry the model runs the analyzers on *)

MaxBatch == 2       \* series in a batch
MaxRuns == 2        \* runs of the analysis section on one batch
MaxNameLen == 2     \* letters in a generated team name

N_MIBR == <<"M", "I", "B", "R">>
N_MIBR1 == N_MIBR \o <<" ", "(", "1", ")">>
N_NRG == <<"N", "R", "G">>

\* Constructors of fully populated telemetry objects.
WK(weapon, n) == [weapon_name |-> Some(weapon), count |-> Some(n)]
GamePlayer(name, char, wks) ==
    [name |-> Some(name), character |-> Some([name |-> Some(char)]), weapon_kills |-> Some(wks)]
SegPlayer(name, kills, damage, wks) ==
    [name |-> Some(name), kills |-> Some(kills), damage_dealt |-> Some(damage), weapon_kills |-> Some(wks)]
GameTeam(name, players) == [name |-> Some(name), players |-> Some(players)]
SegTeam(name, side, players) == [name |-> Some(name), side |-> Some(side), players |-> Some(players)]
Segment(teams) == [teams |-> Some(teams)]
Game(map, teams, segments) ==
    [map |-> Some([name |-> Some(map)]), teams |-> Some(teams), segments |-> Some(segments)]
Draft(id, type, map) ==
    [drafter |-> Some([id |-> Some(id)]), type |-> Some(type), draftable |-> Some([name |-> Some(map)])]
Title(code) == Some([name_shortened |-> Some(code)])
State(title, drafts, games) == [title |-> title, draft_actions |-> Some(drafts), games |-> Some(games)]
Series(id, state) == [id |-> id, series_state |-> state]

Id97 == PyStr(<<"9", "7">>)
Id81 == PyStr(<<"8", "1">>)

\* The draft of API_DATA, first three actions.
DraftsB == <<Draft(Id97, "ban", "icebox"), Draft(Id81, "ban", "corrode"), Draft(Id97, "pick", "lotus")>>

\* aspas of "MIBR (1)" as API_DATA records him: game level and the one segment.
AspasGame == GamePlayer("aspas", "jett", <<WK("sheriff", 2), WK("phantom", 11)>>)
AspasRound == SegPlayer("aspas", 2, 101, <<WK("sheriff", 2)>>)
EthanGame == GamePlayer("ethan", "kayo", <<WK("vandal", 9)>>)
EthanRound == SegPlayer("ethan", 1, 60, <<>>)

SegmentA == Segment(<<SegTeam(N_MIBR1, "attacker", <<AspasRound>>), SegTeam(N_NRG, "defender", <<EthanRound>>)>>)
GameA == Game("lotus", <<GameTeam(N_MIBR1, <<AspasGame>>), GameTeam(N_NRG, <<EthanGame>>)>>, <<SegmentA>>)
\* The same game with its two teams listed the other way round.
GameC == Game("lotus", <<GameTeam(N_NRG, <<EthanGame>>), GameTeam(N_MIBR1, <<AspasGame>>)>>, <<SegmentA>>)

StateA == State(Title("val"), DraftsB, <<GameA>>)

SeriesA == Series(1, Some(StateA))
SeriesC == Series(2, Some(State(Title("val"), <<>>, <<GameC>>)))

\* A round of aspas with the given damage attribute and no weapon kill.
RoundE(damage) ==
    Segment(<<SegTeam(N_MIBR, "Defender",
                      <<[name |-> Some("aspas"), kills |-> Some(1), damage_dealt |-> damage,
                         weapon_kills |-> Some(<<>>)]>>)>>)
TeamsE(wks) == <<GameTeam(N_MIBR, <<GamePlayer("aspas", "jett", wks)>>), GameTeam(N_NRG, <<>>)>>

\* Five rounds over two games, the damage attribute the same in each round.
StateE1(damage) ==
    State(Title("val"), <<>>,
          <<Game("bind", TeamsE(<<>>), <<RoundE(damage), RoundE(damage), RoundE(damage)>>),
            Game("lotus", TeamsE(<<>>), <<RoundE(damage), RoundE(damage)>>)>>)
SeriesE1Zero == Series(3, Some(StateE1(Some(0))))
SeriesE1NoData == Series(4, Some(StateE1(NoAttr)))
\* 300 damage over four rounds.
SeriesE2 ==
    Series(5, Some(State(Title("val"), <<>>,
                         <<Game("bind", TeamsE(<<WK("vandal", 3)>>),
                                <<RoundE(Some(100)), RoundE(Some(50)), RoundE(Some(75)), RoundE(Some(75))>>)>>)))

\* Series the filter must drop; each carries the telemetry of SeriesA.
SeriesNoState == Series(6, None)
SeriesTitleNone == Series(7, Some([StateA EXCEPT !.title = None]))
SeriesNoTitle == Series(8, Some([StateA EXCEPT !.title = NoAttr]))
SeriesNoCode == Series(9, Some([StateA EXCEPT !.title = Some([name_shortened |-> NoAttr])]))
SeriesCodeNone == Series(10, Some([StateA EXCEPT !.title = Some([name_shortened |-> None])]))
SeriesOtherCode == Series(11, Some([StateA EXCEPT !.title = Title("cs2")]))

\* Partial telemetry: one optional sub-field of SeriesA's game absent.
SeriesTeamsNone == Series(12, Some([StateA EXCEPT !.games = Some(<<[GameA EXCEPT !.teams = None]>>)]))

\* The opponent's players list absent in the game.
SeriesOppPlayersNone ==
    Series(13, Some(State(Title("val"), <<>>,
                          <<Game("lotus", <<GameTeam(N_MIBR1, <<AspasGame>>),
                                            [name |-> Some(N_NRG), players |-> None]>>,
                                 <<SegmentA>>)>>)))
\* No map, no character, no kills: absences every analyzer guards.
SeriesGuarded ==
    Series(14, Some(State(Title("val"), <<>>,
                          <<[map |-> None,
                             teams |-> Some(<<GameTeam(N_MIBR1, <<[AspasGame EXCEPT !.character = None]>>),
                                              GameTeam(N_NRG, <<[EthanGame EXCEPT !.character = NoAttr]>>)>>),
                             segments |-> Some(<<Segment(<<SegTeam(N_MIBR1, "attacker",
                                                                   <<[AspasRound EXCEPT !.kills = NoAttr]>>)>>)>>)]>>)))

-----------------------------------------------------------------------------
(* Drafts: series whose draft actions exercise analyze_map_preferences.      *)

Ban(id, map) == Draft(id, "ban", map)
Pick(id, map) == Draft(id, "pick", map)

\* Seven bans of drafter 97 over four maps, with a tie, and two picks.
SeriesBans1 ==
    Series(21, Some(State(Title("val"),
                          <<Ban(Id97, "ascent"), Ban(Id97, "bind"), Ban(Id81, "pearl"), Ban(Id97, "bind"),
                            Ban(Id97, "haven"), Ban(Id97, "split"), Ban(Id97, "split"), Ban(Id97, "split"),
                            Pick(Id97, "lotus"), Pick(Id97, "icebox")>>,
                          <<>>)))
\* Five bans over five maps and seven picks over six maps.
SeriesBans2 ==
    Series(22, Some(State(Title("val"),
                          <<Ban(Id97, "haven"), Ban(Id97, "lotus"), Ban(Id97, "sunset"), Ban(Id97, "pearl"),
                            Ban(Id97, "ascent"), Pick(Id97, "icebox"), Pick(Id97, "icebox"),
                            Pick(Id97, "lotus"), Pick(Id97, "bind"), Pick(Id97, "haven"),
                            Pick(Id97, "split"), Pick(Id81, "split"), Pick(Id97, "ascent")>>,
                          <<>>)))
\* Draft actions of drafter 97 that lack a map name or a type, an action without a
\* drafter, an action of another kind, and an action of drafter 81.
SeriesPartialDrafts ==
    Series(23, Some(State(Title("val"),
                          <<Ban(Id97, "bind"),
                            [Ban(Id97, "bind") EXCEPT !.draftable = None],
                            [Ban(Id97, "bind") EXCEPT !.draftable = Some([name |-> None])],
                            [Pick(Id97, "ascent") EXCEPT !.type = NoAttr],
                            [Ban(Id97, "bind") EXCEPT !.drafter = None],
                            [Ban(Id97, "bind") EXCEPT !.drafter = Some([id |-> NoAttr])],
                            Draft(Id97, "other", "haven"),
                            Pick(Id81, "bind")>>,
                          <<>>)))
\* The draft of another title, and a state without draft_actions.
SeriesOtherTitleDrafts == Series(24, Some(State(Title("cs2"), <<Ban(Id97, "bind"), Pick(Id97, "bind")>>, <<>>)))
SeriesNoDrafts == Series(25, Some([StateA EXCEPT !.draft_actions = NoAttr]))

DraftUniverse ==
    {SeriesA, SeriesBans1, SeriesBans2, SeriesPartialDrafts, SeriesOtherTitleDrafts, SeriesNoDrafts}

-----------------------------------------------------------------------------
(* Cases: series that exercise the weapon ranking, the zero denominators and *)
(* the choice of the opponent team.                                          *)

N_LOUD == <<"L", "O", "U", "D">>

SaadhakGame == GamePlayer("saadhak", "breach", <<WK("vandal", 4)>>)
SaadhakRound == SegPlayer("saadhak", 3, 40, <<>>)
LessGame == GamePlayer("less", "viper", <<>>)

\* aspas with sheriff 1 and phantom 2, less without a weapon kill, and no segment:
\* no round for either side, no damage data, no round of the opponent.
SeriesTie1 ==
    Series(31, Some(State(Title("val"), <<>>,
                          <<Game("lotus",
                                 <<GameTeam(N_MIBR, <<GamePlayer("aspas", "jett",
                                                                 <<WK("sheriff", 1), WK("phantom", 2)>>),
                                                      LessGame>>),
                                   GameTeam(N_NRG, <<EthanGame>>)>>,
                                 <<>>)>>)))
\* aspas with one more sheriff kill and three more weapons at 2; a tally without a
\* weapon name and a tally of zero; a round on a side that is neither attacker nor
\* defender, without damage data.
SeriesTie2 ==
    Series(32, Some(State(Title("val"), <<>>,
                          <<Game("bind",
                                 <<GameTeam(N_MIBR, <<GamePlayer("aspas", "jett",
                                                                 <<WK("sheriff", 1), WK("vandal", 2),
                                                                   WK("", 3), WK("ghost", 0),
                                                                   WK("classic", 2)>>)>>),
                                   GameTeam(N_NRG, <<EthanGame>>)>>,
                                 <<Segment(<<SegTeam(N_MIBR, "spectator",
                                                     <<[name |-> Some("aspas"), kills |-> Some(2),
                                                        damage_dealt |-> NoAttr,
                                                        weapon_kills |-> Some(<<WK("operator", 2)>>)]>>),
                                             SegTeam(N_NRG, "defender", <<EthanRound>>)>>)>>)>>)))

\* A game of three teams.
SeriesThreeTeams ==
    Series(33, Some(State(Title("val"), <<>>,
                          <<Game("lotus",
                                 <<GameTeam(N_MIBR1, <<AspasGame>>), GameTeam(N_NRG, <<EthanGame>>),
                                   GameTeam(N_LOUD, <<SaadhakGame>>)>>,
                                 <<Segment(<<SegTeam(N_MIBR1, "attacker", <<AspasRound>>),
                                             SegTeam(N_NRG, "defender", <<EthanRound>>),
                                             SegTeam(N_LOUD, "defender", <<SaadhakRound>>)>>)>>)>>)))
\* A game of NRG against LOUD, followed by the game of Scenario A.
SeriesNoScouted ==
    Series(34, Some(State(Title("val"), <<>>,
                          <<Game("bind",
                                 <<GameTeam(N_LOUD, <<SaadhakGame>>), GameTeam(N_NRG, <<EthanGame>>)>>,
                                 <<Segment(<<SegTeam(N_LOUD, "attacker", <<SaadhakRound>>),
                                             SegTeam(N_NRG, "defender", <<EthanRound>>)>>)>>),
                            GameA>>)))
\* A game whose two teams both carry the name MIBR, followed by the game of Scenario A.
SeriesBothScouted ==
    Series(35, Some(State(Title("val"), <<>>,
                          <<Game("bind",
                                 <<GameTeam(N_MIBR, <<LessGame>>), GameTeam(N_MIBR1, <<AspasGame>>)>>,
                                 <<Segment(<<SegTeam(N_MIBR, "attacker", <<SegPlayer("less", 1, 30, <<>>)>>),
                                             SegTeam(N_MIBR1, "defender", <<AspasRound>>)>>)>>),
                            GameA>>)))
\* Three segments: one with both teams, one without NRG, one without teams.
SeriesRounds ==
    Series(36, Some(State(Title("val"), <<>>,
                          <<Game("lotus",
                                 <<GameTeam(N_MIBR1, <<AspasGame>>), GameTeam(N_NRG, <<EthanGame>>)>>,
                                 <<SegmentA,
                                   Segment(<<SegTeam(N_MIBR1, "attacker", <<AspasRound>>)>>),
                                   Segment(<<>>)>>)>>)))
\* Two NRG players recorded with the same character, over two segments.
SeriesTwins ==
    Series(37, Some(State(Title("val"), <<>>,
                          <<Game("lotus",
                                 <<GameTeam(N_MIBR1, <<AspasGame>>),
                                   GameTeam(N_NRG, <<EthanGame, GamePlayer("demon1", "kayo", <<>>)>>)>>,
                                 <<SegmentA,
                                   Segment(<<SegTeam(N_MIBR1, "defender", <<AspasRound>>),
                                             SegTeam(N_NRG, "attacker",
                                                     <<EthanRound, SegPlayer("demon1", 2, 80, <<>>)>>)>>)>>)>>)))

\* Seven games of MIBR (1) against NRG: kayo in all seven with 2 kills and 100
\* damage, omen in the first three with 1 kill and no damage, one round in all.
RankingGame(nrg, segments) ==
    Game("lotus", <<GameTeam(N_MIBR1, <<AspasGame>>), GameTeam(N_NRG, nrg)>>, segments)
SeriesRanking ==
    LET both == <<EthanGame, GamePlayer("demon1", "omen", <<>>)>>
    IN  Series(38, Some(State(Title("val"), <<>>,
                   <<RankingGame(both, <<Segment(<<SegTeam(N_MIBR1, "attacker", <<AspasRound>>),
                                                   SegTeam(N_NRG, "defender",
                                                           <<SegPlayer("ethan", 2, 100, <<>>),
                                                             SegPlayer("demon1", 1, 0, <<>>)>>)>>)>>),
                     RankingGame(both, <<>>), RankingGame(both, <<>>),
                     RankingGame(<<EthanGame>>, <<>>), RankingGame(<<EthanGame>>, <<>>),
                     RankingGame(<<EthanGame>>, <<>>), RankingGame(<<EthanGame>>, <<>>)>>)))

\* Games of Scenario A without a map, without a map name and with an empty map
\* name, followed by the game itself.
SeriesNoMap ==
    Series(39, Some(State(Title("val"), <<>>,
                          <<[GameA EXCEPT !.map = None],
                            [GameA EXCEPT !.map = Some([name |-> NoAttr])],
                            [GameA EXCEPT !.map = Some([name |-> Some("")])],
                            GameA>>)))

CaseUniverse ==
    {SeriesA, SeriesTie1, SeriesTie2, SeriesThreeTeams, SeriesNoScouted, SeriesBothScouted,
     SeriesRounds, SeriesTwins, SeriesRanking, SeriesNoMap}

-----------------------------------------------------------------------------
(* The batches the analysis section is entered with *)

SeriesUniverse ==
    {SeriesA, SeriesC, SeriesE1Zero, SeriesE1NoData, SeriesE2,
     SeriesNoState, SeriesTitleNone, SeriesNoTitle, SeriesNoCode, SeriesCodeNone, SeriesOtherCode,
     SeriesTeamsNone, SeriesOppPlayersNone, SeriesGuarded}

\* The series of a batch are distinct records, as the ids of fetch_recent_series are.
BatchesOver(U, n) ==
    {b \in UNION {[1..k -> U] : k \in 0..n} : \A x, y \in DOMAIN b : x # y => b[x] # b[y]}

TeamMIBR == [name |-> N_MIBR, id |-> PyInt(97)]
TeamNRG == [name |-> N_NRG, id |-> Id81]
Teams == {TeamMIBR, TeamNRG}

-----------------------------------------------------------------------------
(* The analysis section: the four calls of fe.py:559-562 on one batch.       *)
(* A call is a Start (its locals are created), one Step per series of the    *)
(* batch, and a Return.  A call that raises is recorded as Raised and the    *)
(* next call is still made: the analyzers share nothing, so each is          *)
(* observed on every batch as a caller of that analyzer alone would see it.  *)

Pending == [pending |-> TRUE]
NoResults == [weapons |-> Pending, maps |-> Pending, chars |-> Pending, impact |-> Pending]

NoPair == [team_name |-> None, target_name |-> None]

\* No call of get_series_details is being made; no Streamlit session is open.
NoFetch == [phase |-> "none"]
NoSession == [phase |-> "none"]
NoDebug == [phase |-> "none"]

Init ==
    /\ batch \in BatchesOver(SeriesUniverse, MaxBatch)
    /\ team \in Teams
    /\ call = "weapons"
    /\ i = 0
    /\ run = 1
    /\ mp = MapPrefsLocals
    /\ mc = MapCharsLocals
    /\ oi = OppImpactLocals
    /\ pw = PlayerWeaponsLocals
    /\ result = NoResults
    /\ previous = NoResults
    /\ obs = NoPair
    /\ verdict = <<>>
    /\ fetch = NoFetch
    /\ ui = NoSession
    /\ ds = NoDebug

Looping(c) == call = c /\ i >= 1 /\ i <= Len(batch)

StartWeapons ==
    /\ call = "weapons" /\ i = 0
    /\ pw' = PlayerWeaponsLocals
    /\ i' = 1
    /\ UNCHANGED <<batch, team, call, run, mp, mc, oi, result, previous, obs, verdict, fetch, ui, ds>>

StepWeapons ==
    /\ Looping("weapons") /\ ~pw.raised
    /\ pw' = PlayerWeaponsSeries(pw, batch[i], team.name)
    /\ i' = i + 1
    /\ UNCHANGED <<batch, team, call, run, mp, mc, oi, result, previous, obs, verdict, fetch, ui, ds>>

ReturnWeapons ==
    /\ call = "weapons" /\ i >= 1 /\ (pw.raised \/ i = Len(batch) + 1)
    /\ result' = [result EXCEPT !.weapons = PlayerWeaponsReturn(pw)]
    /\ call' = "maps"
    /\ i' = 0
    /\ UNCHANGED <<batch, team, run, mp, mc, oi, pw, previous, obs, verdict, fetch, ui, ds>>

\* The call with map_bans, map_picks and total_actions kept from the call before,
\* as counters defined at module level would be.
StartMapsKeepingCounters ==
    /\ call = "maps" /\ i = 0
    /\ i' = 1
    /\ UNCHANGED <<batch, team, call, run, mp, mc, oi, pw, result, previous, obs, verdict, fetch, ui, ds>>

StartMaps ==
    /\ call = "maps" /\ i = 0
    /\ mp' = MapPrefsLocals
    /\ i' = 1
    /\ UNCHANGED <<batch, team, call, run, mc, oi, pw, result, previous, obs, verdict, fetch, ui, ds>>

StepMaps ==
    /\ Looping("maps") /\ ~mp.raised
    /\ mp' = MapPrefsSeries(mp, batch[i], team.id)
    /\ i' = i + 1
    /\ UNCHANGED <<batch, team, call, run, mc, oi, pw, result, previous, obs, verdict, fetch, ui, ds>>

ReturnMaps ==
    /\ call = "maps" /\ i >= 1 /\ (mp.raised \/ i = Len(batch) + 1)
    /\ result' = [result EXCEPT !.maps = MapPrefsReturn(mp)]
    /\ call' = "chars"
    /\ i' = 0
    /\ UNCHANGED <<batch, team, run, mp, mc, oi, pw, previous, obs, verdict, fetch, ui, ds>>

StartChars ==
    /\ call = "chars" /\ i = 0
    /\ mc' = MapCharsLocals
    /\ i' = 1
    /\ UNCHANGED <<batch, team, call, run, mp, oi, pw, result, previous, obs, verdict, fetch, ui, ds>>

StepChars ==
    /\ Looping("chars") /\ ~mc.raised
    /\ mc' = MapCharsSeries(mc, batch[i], team.name)
    /\ i' = i + 1
    /\ UNCHANGED <<batch, team, call, run, mp, oi, pw, result, previous, obs, verdict, fetch, ui, ds>>

ReturnChars ==
    /\ call = "chars" /\ i >= 1 /\ (mc.raised \/ i = Len(batch) + 1)
    /\ result' = [result EXCEPT !.chars = MapCharsReturn(mc)]
    /\ call' = "impact"
    /\ i' = 0
    /\ UNCHANGED <<batch, team, run, mp, mc, oi, pw, previous, obs, verdict, fetch, ui, ds>>

StartImpact ==
    /\ call = "impact" /\ i = 0
    /\ oi' = OppImpactLocals
    /\ i' = 1
    /\ UNCHANGED <<batch, team, call, run, mp, mc, pw, result, previous, obs, verdict, fetch, ui, ds>>

StepImpact ==
    /\ Looping("impact") /\ ~oi.raised
    /\ oi' = OppImpactSeries(oi, batch[i], team.name)
    /\ i' = i + 1
    /\ UNCHANGED <<batch, team, call, run, mp, mc, pw, result, previous, obs, verdict, fetch, ui, ds>>

ReturnImpact ==
    /\ call = "impact" /\ i >= 1 /\ (oi.raised \/ i = Len(batch) + 1)
    /\ result' = [result EXCEPT !.impact = OppImpactReturn(oi)]
    /\ call' = "done"
    /\ i' = 0
    /\ UNCHANGED <<batch, team, run, mp, mc, oi, pw, previous, obs, verdict, fetch, ui, ds>>

\* The script runs again on the same session state: the calls are made anew.
Rerun ==
    /\ call = "done" /\ run < MaxRuns
    /\ previous' = result
    /\ result' = NoResults
    /\ run' = run + 1
    /\ call' = "weapons"
    /\ i' = 0
    /\ UNCHANGED <<batch, team, mp, mc, oi, pw, obs, verdict, fetch, ui, ds>>

Next ==
    \/ StartWeapons \/ StepWeapons \/ ReturnWeapons
    \/ StartMaps \/ StepMaps \/ ReturnMaps
    \/ StartChars \/ StepChars \/ ReturnChars
    \/ StartImpact \/ StepImpact \/ ReturnImpact
    \/ Rerun

Spec == Init /\ [][Next]_vars

\* The analysis section entered with a batch drawn from the universe U.
InitOn(U) ==
    /\ batch \in BatchesOver(U, MaxBatch)
    /\ team \in Teams
    /\ call = "weapons"
    /\ i = 0
    /\ run = 1
    /\ mp = MapPrefsLocals
    /\ mc = MapCharsLocals
    /\ oi = OppImpactLocals
    /\ pw = PlayerWeaponsLocals
    /\ result = NoResults
    /\ previous = NoResults
    /\ obs = NoPair
    /\ verdict = <<>>
    /\ fetch = NoFetch
    /\ ui = NoSession
    /\ ds = NoDebug

InitDraft == InitOn(DraftUniverse)

SpecDraft == InitDraft /\ [][Next]_vars

InitCases == InitOn(CaseUniverse)

SpecCases == InitCases /\ [][Next]_vars

-----------------------------------------------------------------------------
(* The team identity rule on its own: one call of _is_target_team on a pair   *)
(* of names, each None or a string, then the inline test of                   *)
(* analyze_player_weapons and analyze_map_characters on the same pair.        *)

Letters == {"a", "b"}

Strings(n) == UNION {[1..k -> Letters] : k \in 0..n}

Names == {None} \cup {Some(x) : x \in Strings(MaxNameLen) \cup {N_MIBR, N_MIBR1, N_NRG}}

InitNames ==
    /\ batch = <<>>
    /\ team = TeamMIBR
    /\ call = "done"
    /\ i = 0
    /\ run = MaxRuns
    /\ mp = MapPrefsLocals
    /\ mc = MapCharsLocals
    /\ oi = OppImpactLocals
    /\ pw = PlayerWeaponsLocals
    /\ result = NoResults
    /\ previous = NoResults
    /\ obs \in [team_name : Names, target_name : Names]
    /\ verdict = <<>>
    /\ fetch = NoFetch
    /\ ui = NoSession
    /\ ds = NoDebug

IsTargetTeamCall ==
    /\ verdict = <<>>
    /\ verdict' = <<_is_target_team(obs.team_name, obs.target_name)>>
    /\ UNCHANGED <<batch, team, call, i, run, mp, mc, oi, pw, result, previous, obs, fetch, ui, ds>>

\* The inline test of the two other analyzers on the same pair of names.
InlineTeamTestCall ==
    /\ Len(verdict) = 1
    /\ verdict' = Append(verdict, InlineTeamTestOn(obs.team_name, obs.target_name))
    /\ UNCHANGED <<batch, team, call, i, run, mp, mc, oi, pw, result, previous, obs, fetch, ui, ds>>

NextNames == IsTargetTeamCall \/ InlineTeamTestCall

SpecNames == InitNames /\ [][NextNames]_vars

-----------------------------------------------------------------------------
(* get_series_details (fe.py:412-458): one task per series id, joined by     *)
(* asyncio.gather(return_exceptions=True), then the loop that keeps the      *)
(* responses that are neither an exception nor None.  A task completes with  *)
(* the record of its id, with None or with an exception, and the tasks       *)
(* complete in any order.                                                    *)

\* The variables of the analysis section.
analysisVars == <<batch, team, call, i, run, mp, mc, oi, pw, result, previous, obs, verdict>>

\* No analyzer call is in progress.
AnalysisIdle ==
    /\ batch = <<>>
    /\ team = TeamMIBR
    /\ call = "done"
    /\ i = 0
    /\ run = MaxRuns
    /\ mp = MapPrefsLocals
    /\ mc = MapCharsLocals
    /\ oi = OppImpactLocals
    /\ pw = PlayerWeaponsLocals
    /\ result = NoResults
    /\ previous = NoResults
    /\ obs = NoPair
    /\ verdict = <<>>

MaxIds == 2

\* The series ids asked for, and the record the provider holds for each.
FetchIds == {1, 2, 6}
DetailOf(id) == CHOOSE s \in SeriesUniverse : s.id = id

\* What a task can complete with.
Exception == [tag |-> "exception"]
Outcomes(id) == {Some(DetailOf(id)), None, Exception}

\* The task has completed.
TaskDone(o) == "pending" \notin DOMAIN o

\* tasks.append(client.get_completed_series_details(id=series_id)) for every id:
\* the state of the call when it awaits the gather.
Awaiting(series_ids) ==
    [phase |-> "gather",
     series_ids |-> series_ids,
     outcome |-> [p \in 1..Len(series_ids) |-> Pending],   \* what each task completed with
     done |-> <<>>,                                        \* the tasks in completion order
     responses |-> <<>>,
     k |-> 0,
     valid_responses |-> <<>>,
     failed |-> FALSE,
     returned |-> Pending]

InitFetch ==
    /\ AnalysisIdle
    /\ ui = NoSession
    /\ ds = NoDebug
    /\ fetch \in {Awaiting(ids) : ids \in UNION {[1..n -> FetchIds] : n \in 0..MaxIds}}

\* One of the pending tasks completes.
TaskCompletes ==
    /\ fetch.phase = "gather"
    /\ \E p \in 1..Len(fetch.series_ids) :
          /\ ~TaskDone(fetch.outcome[p])
          /\ \E o \in Outcomes(fetch.series_ids[p]) :
                fetch' = [fetch EXCEPT !.outcome[p] = o, !.done = Append(@, p)]
    /\ UNCHANGED <<analysisVars, ui, ds>>

\* gather without return_exceptions: the first exception among the tasks, in
\* completion order, is raised in the caller, whose except clause returns [].
GatherRaisesFirstException ==
    /\ fetch.phase = "gather"
    /\ \A p \in 1..Len(fetch.series_ids) : TaskDone(fetch.outcome[p])
    /\ fetch' = IF \E p \in 1..Len(fetch.series_ids) : fetch.outcome[p] = Exception
                THEN [fetch EXCEPT !.phase = "returned", !.failed = TRUE, !.returned = [list |-> <<>>]]
                ELSE [fetch EXCEPT !.phase = "filter", !.responses = fetch.outcome, !.k = 1]
    /\ UNCHANGED <<analysisVars, ui, ds>>

\* responses = await asyncio.gather(*tasks, return_exceptions=True): once every task
\* is done, the results in the order of the tasks, exceptions among them.
GatherReturns ==
    /\ fetch.phase = "gather"
    /\ \A p \in 1..Len(fetch.series_ids) : TaskDone(fetch.outcome[p])
    /\ fetch' = [fetch EXCEPT !.phase = "filter", !.responses = fetch.outcome, !.k = 1]
    /\ UNCHANGED <<analysisVars, ui, ds>>

\* The debug line of fe.py:441 evaluates len(response.series_state.games) when the
\* state is there and has the attribute: None for games raises TypeError.
DebugPrintRaises(response) ==
    /\ TruthyObj(response.series_state)
    /\ HasAttr(response.series_state.v.games)
    /\ ~IsSome(response.series_state.v.games)

\* One turn of "for i, response in enumerate(responses)"; an exception raised in
\* the loop is caught by the except clause of fe.py:456, which returns [].
FilterResponse ==
    /\ fetch.phase = "filter" /\ fetch.k <= Len(fetch.responses)
    /\ LET response == fetch.responses[fetch.k]
       IN  fetch' = IF response = Exception \/ response = None
                    THEN [fetch EXCEPT !.k = @ + 1]
                    ELSE IF DebugPrintRaises(response.v)
                    THEN [fetch EXCEPT !.phase = "returned", !.failed = TRUE,
                                       !.returned = [list |-> <<>>]]
                    ELSE [fetch EXCEPT !.k = @ + 1, !.valid_responses = Append(@, response.v)]
    /\ UNCHANGED <<analysisVars, ui, ds>>

\* return valid_responses
FetchReturns ==
    /\ fetch.phase = "filter" /\ fetch.k = Len(fetch.responses) + 1
    /\ fetch' = [fetch EXCEPT !.phase = "returned", !.returned = [list |-> fetch.valid_responses]]
    /\ UNCHANGED <<analysisVars, ui, ds>>

NextFetch == TaskCompletes \/ GatherReturns \/ FilterResponse \/ FetchReturns

SpecFetch == InitFetch /\ [][NextFetch]_vars

-----------------------------------------------------------------------------
(* The Streamlit script (fe.py:461-562).  Every interaction of the user runs *)
(* the script from the top on the session state: the Search Team button, the *)
(* months widget, the Scout Team button, and the analysis section, whose     *)
(* four analyzers are wrapped by st.cache_data.  st.cache_data hashes the    *)
(* arguments of a call into its key except those whose parameter name        *)
(* starts with an underscore; the cache lives until .clear() is called.      *)

DefaultMonths == 3
Windows == {3, 4}

\* fetch_team: the team of that exact name, or None.
FetchTeam(team_name) ==
    IF team_name = N_MIBR THEN Some(TeamMIBR)
    ELSE IF team_name = N_NRG THEN Some(TeamNRG)
    ELSE None

\* What the user may have typed into the team name box.
Typed == {<<>>, N_MIBR, N_NRG, N_LOUD}

\* fetch_recent_series: the ids of the series of the team since the date.
RecentSeries(t, months_back) ==
    IF t = TeamMIBR THEN (IF months_back = 3 THEN <<1, 5>> ELSE <<1, 5, 2>>)
    ELSE (IF months_back = 3 THEN <<>> ELSE <<2>>)

\* What get_series_details can return for the ids: the records of any of them, in
\* the order of the ids.
RECURSIVE Details(_)
Details(ids) ==
    IF ids = <<>> THEN {<<>>}
    ELSE LET rest == Details(Tail(ids))
         IN  rest \cup {<<DetailOf(ids[1])>> \o d : d \in rest}

\* The parameters of the four analyzers are _series_details, _target_team_name (or
\* _target_team_id) and _months_back: none is hashed, the key of every call is the same.
CacheKey(series_details, target, months_back) == <<>>

EmptyCache == [c \in {"weapons", "maps", "chars", "impact"} |-> {}]

\* The body of the analyzer c on the arguments of the call.
Compute(c, series_details, t) ==
    CASE c = "weapons" -> analyze_player_weapons(series_details, t.name)
      [] c = "maps" -> analyze_map_preferences(series_details, t.id)
      [] c = "chars" -> analyze_map_characters(series_details, t.name)
      [] c = "impact" -> analyze_opponent_character_impact(series_details, t.name)

\* The argument the analyzer c takes for the scouted team.
TargetArg(c, t) == IF c = "maps" THEN t.id ELSE t.name

\* A call of the cached analyzer c on its store: the entry stored under the key of
\* the call if there is one, else the body's value, which is stored.
CachedCall(stored, c, series_details, t, months_back) ==
    LET key == CacheKey(series_details, TargetArg(c, t), months_back)
        hits == {e \in stored : e.key = key}
    IN  IF hits # {}
        THEN [value |-> (CHOOSE e \in hits : TRUE).value, stored |-> stored]
        ELSE LET v == Compute(c, series_details, t)
             IN  [value |-> v, stored |-> stored \cup {[key |-> key, value |-> v]}]

NotShown == [shown |-> FALSE]

InitUI ==
    /\ AnalysisIdle
    /\ fetch = NoFetch
    /\ ds = NoDebug
    /\ ui = [phase |-> "session",
             selected_team |-> None,
             series_list |-> None,        \* Some([ids, for_team]) once fetched
             months_back |-> DefaultMonths,
             cache |-> EmptyCache,
             shown |-> NotShown,          \* what the last run of the script displayed
             args |-> NotShown]           \* the arguments of the calls that gave it

\* The four calls of fe.py:559-562 on the fetched details, each through the cache
\* of its analyzer.
Analyze(s, detailed_series) ==
    LET t == s.selected_team.v
        m == s.months_back
        analysis == [c \in {"weapons", "maps", "chars", "impact"} |->
                        CachedCall(s.cache[c], c, detailed_series, t, m)]
    IN  [s EXCEPT !.cache = [c \in DOMAIN analysis |-> analysis[c].stored],
                  !.shown = [c \in DOMAIN analysis |-> analysis[c].value],
                  !.args = [series_details |-> detailed_series, team |-> t, months_back |-> m]]

\* The script from "if st.session_state.selected_team" on, the buttons handled: s2
\* is a session the run can end in.  The months widget is rendered only with a
\* selected team and starts from its default when it is rendered anew; the
\* analysis section runs when there is a series list and a detail came back.
Rendered(s, s2) ==
    IF ~IsSome(s.selected_team)
    THEN s2 = [s EXCEPT !.months_back = DefaultMonths, !.shown = NotShown, !.args = NotShown]
    ELSE IF ~IsSome(s.series_list)
    THEN s2 = [s EXCEPT !.shown = NotShown, !.args = NotShown]
    ELSE \E detailed_series \in Details(s.series_list.v.ids) :
            s2 = IF detailed_series = <<>>
                 THEN [s EXCEPT !.shown = NotShown, !.args = NotShown]
                 ELSE Analyze(s, detailed_series)

\* find_series: the list replaces the stored one, or None when nothing came back.
FindSeries(s) ==
    LET ids == RecentSeries(s.selected_team.v, s.months_back)
    IN  [s EXCEPT !.series_list = IF ids # <<>>
                                  THEN Some([ids |-> ids, for_team |-> s.selected_team.v])
                                  ELSE None]

\* The Search Team button: with a name typed, selected_team becomes the team found
\* or None; the series list stays.
SearchTeam ==
    /\ ui.phase = "session"
    /\ \E team_name \in Typed :
          Rendered(IF team_name # <<>> THEN [ui EXCEPT !.selected_team = FetchTeam(team_name)] ELSE ui,
                   ui')
    /\ UNCHANGED <<analysisVars, fetch, ds>>

\* The user sets the months widget.
ChangeWindow ==
    /\ ui.phase = "session" /\ IsSome(ui.selected_team)
    /\ \E m \in Windows \ {ui.months_back} : Rendered([ui EXCEPT !.months_back = m], ui')
    /\ UNCHANGED <<analysisVars, fetch, ds>>

\* The Scout Team button without the four .clear() calls.
ScoutTeamKeepingCaches ==
    /\ ui.phase = "session" /\ IsSome(ui.selected_team)
    /\ Rendered(FindSeries(ui), ui')
    /\ UNCHANGED <<analysisVars, fetch, ds>>

\* The Scout Team button: the four caches are cleared, then the series are fetched.
ScoutTeam ==
    /\ ui.phase = "session" /\ IsSome(ui.selected_team)
    /\ Rendered(FindSeries([ui EXCEPT !.cache = EmptyCache]), ui')
    /\ UNCHANGED <<analysisVars, fetch, ds>>

\* Any other interaction: the script runs on the session as it stands.
RerunScript ==
    /\ ui.phase = "session"
    /\ Rendered(ui, ui')
    /\ UNCHANGED <<analysisVars, fetch, ds>>

NextUI == SearchTeam \/ ChangeWindow \/ ScoutTeam \/ RerunScript

SpecUI == InitUI /\ [][NextUI]_vars

-----------------------------------------------------------------------------
(* The debug script (src/llms/debug_analysis_simple.py): one call of          *)
(* analyze_team_series_data on a list of mock series objects.  The mock       *)
(* objects carry the camelCase attributes of the API payload; the team test   *)
(* is plain equality of names.  A call is one Step per series, then a Return. *)

MockWeaponKill(weaponName, count) == [weaponName |-> Some(weaponName), count |-> count]
MockObjective(type, completionCount) == [type |-> type, completionCount |-> completionCount]
MockPlayer(name, damageDealt, currentArmor, weaponKills, objectives) ==
    [name |-> name, headshots |-> Some(1), damageDealt |-> Some(damageDealt),
     damageTaken |-> Some(78), currentArmor |-> Some(currentArmor),
     killAssistsGiven |-> Some(0), killAssistsReceived |-> Some(1),
     weaponKills |-> Some(weaponKills), objectives |-> Some(objectives)]
\* A player of another title: none of the Valorant attributes.
MockOtherPlayer(name) ==
    [name |-> name, headshots |-> NoAttr, damageDealt |-> NoAttr, damageTaken |-> NoAttr,
     currentArmor |-> NoAttr, killAssistsGiven |-> NoAttr, killAssistsReceived |-> NoAttr,
     weaponKills |-> NoAttr, objectives |-> NoAttr]
MockSegmentTeam(name, players) == [name |-> name, players |-> players]
MockGameTeam(name, players) == [name |-> name, players |-> players]
MockSegment(sequenceNumber, teams) == [sequenceNumber |-> sequenceNumber, teams |-> teams]
MockGamePlayer(name, weaponKills) == [name |-> name, weaponKills |-> Some(weaponKills)]
MockGame(sequenceNumber, segments, teams) ==
    [sequenceNumber |-> sequenceNumber, segments |-> segments, teams |-> teams]
MockSeriesState(draft_actions, games) == [draft_actions |-> draft_actions, games |-> games]
MockSeries(id, series_state) == [id |-> id, series_state |-> series_state]

\* API_DATA: three draft actions, one game, one segment, aspas of "MIBR (1)".
MockApiData ==
    MockSeries(51, Some(MockSeriesState(DraftsB,
        <<MockGame(1,
            <<MockSegment(1, <<MockSegmentTeam(N_MIBR1,
                <<MockPlayer("aspas", 101, 0, <<MockWeaponKill("sheriff", 2)>>, <<>>)>>)>>)>>,
            <<MockGameTeam(N_MIBR1,
                <<MockGamePlayer("aspas", <<MockWeaponKill("sheriff", 2),
                                            MockWeaponKill("phantom", 11)>>)>>)>>)>>)))

\* One game of three rounds between "MIBR (1)" and "NRG"; cortezia joins in round 2.
MockThreeRounds ==
    MockSeries(52, Some(MockSeriesState(<<Draft(Id81, "ban", "icebox")>>,
        <<MockGame(1,
            <<MockSegment(1, <<MockSegmentTeam(N_MIBR1,
                                  <<MockPlayer("aspas", 150, 25, <<MockWeaponKill("ghost", 1)>>, <<>>)>>),
                               MockSegmentTeam(N_NRG,
                                  <<MockPlayer("ethan", 90, 0, <<>>, <<>>)>>)>>),
              MockSegment(2, <<MockSegmentTeam(N_MIBR1,
                                  <<MockPlayer("aspas", 60, 50, <<>>,
                                               <<MockObjective("captureUltimateOrb", 1)>>),
                                    MockPlayer("cortezia", 40, 50, <<MockWeaponKill("vandal", 1)>>,
                                               <<MockObjective("plantBomb", 1)>>)>>),
                               MockSegmentTeam(N_NRG,
                                  <<MockPlayer("ethan", 30, 50, <<MockWeaponKill("vandal", 2)>>, <<>>)>>)>>),
              MockSegment(3, <<MockSegmentTeam(N_MIBR1,
                                  <<MockPlayer("aspas", 0, 50, <<MockWeaponKill("vandal", 0)>>, <<>>)>>),
                               MockSegmentTeam(N_NRG,
                                  <<MockPlayer("ethan", 120, 50, <<MockWeaponKill("vandal", 1)>>, <<>>)>>)>>)>>,
            <<MockGameTeam(N_MIBR1, <<MockGamePlayer("aspas", <<MockWeaponKill("ghost", 1)>>),
                                  MockGamePlayer("xenom", <<MockWeaponKill("odin", 4)>>)>>),
              MockGameTeam(N_NRG, <<MockGamePlayer("ethan", <<MockWeaponKill("vandal", 3)>>)>>)>>)>>)))

\* Two games of one round each; the second has players without the Valorant attributes.
MockTwoGames ==
    MockSeries(53, Some(MockSeriesState(
        <<Draft(Id97, "ban", "corrode"),
          [drafter |-> None, type |-> Some("ban"), draftable |-> Some([name |-> Some("lotus")])]>>,
        <<MockGame(1,
            <<MockSegment(1, <<MockSegmentTeam(N_NRG,
                                  <<MockPlayer("ethan", 70, 25, <<MockWeaponKill("classic", 1)>>, <<>>)>>),
                               MockSegmentTeam(N_MIBR1,
                                  <<MockPlayer("aspas", 80, 0, <<>>, <<>>)>>)>>)>>,
            <<>>),
          MockGame(2,
            <<MockSegment(1, <<MockSegmentTeam(N_NRG, <<MockOtherPlayer("ethan"), MockOtherPlayer("s0m")>>),
                               MockSegmentTeam(N_MIBR1, <<MockOtherPlayer("aspas")>>)>>)>>,
            <<MockGameTeam(N_NRG, <<MockGamePlayer("s0m", <<MockWeaponKill("operator", 2)>>)>>)>>)>>)))

\* A series whose state is missing.
MockNoState == MockSeries(54, None)

DebugUniverse == {MockApiData, MockThreeRounds, MockTwoGames, MockNoState}
DebugTargets == {N_MIBR1, N_NRG}

\* The default of player_stats: defaultdict(lambda: {...}).
DebugStats(player_name) ==
    [k |-> player_name, total_rounds |-> 0, pistol_rounds |-> 0, pistol_armor_buys |-> 0,
     total_damage_dealt |-> 0, total_damage_taken |-> 0, total_headshots |-> 0,
     total_assists_given |-> 0, total_assists_received |-> 0,
     total_capture_ultimate_orb |-> 0, weapon_usage |-> <<>>, series_played |-> 0]

\* getattr(player, attribute, 0)
GetattrOr0(a) == IF HasAttr(a) THEN a.v ELSE 0

\* "for weapon_kill in ...weaponKills" under its hasattr test.
DebugWeaponUsage(usage, weaponKills) ==
    IF ~HasAttr(weaponKills) THEN usage
    ELSE FoldSeq(LAMBDA u, weapon_kill :
                    IF TruthyStr(weapon_kill.weaponName) /\ weapon_kill.count # 0
                    THEN Add(u, weapon_kill.weaponName.v, weapon_kill.count)
                    ELSE u,
                 usage, weaponKills.v)

\* "for objective in player.objectives" under its hasattr test.
DebugOrbs(objectives) ==
    IF ~HasAttr(objectives) THEN 0
    ELSE FoldSeq(LAMBDA n, objective :
                    IF objective.type = "captureUltimateOrb"
                    THEN n + objective.completionCount ELSE n,
                 0, objectives.v)

\* The body of "for player in team.players" in the segment loop.
DebugSegPlayerRoundsOnly(player_stats, player, is_pistol_round) ==
    IF ~(HasAttr(player.damageDealt) /\ HasAttr(player.headshots)) THEN player_stats
    ELSE LET ps == IF HasKey(player_stats, player.name) THEN player_stats
                   ELSE Append(player_stats, DebugStats(player.name))
             at == Get(ps, player.name)
         IN  [ps EXCEPT ![at] = [@ EXCEPT !.total_rounds = @ + 1]]

DebugSegPlayer(player_stats, player, is_pistol_round) ==
    IF ~(HasAttr(player.damageDealt) /\ HasAttr(player.headshots)) THEN player_stats
    ELSE LET ps == IF HasKey(player_stats, player.name) THEN player_stats
                   ELSE Append(player_stats, DebugStats(player.name))
             at == Get(ps, player.name)
             armor_value == GetattrOr0(player.currentArmor)
         IN  [ps EXCEPT ![at] =
                [@ EXCEPT !.total_rounds = @ + 1,
                          !.series_played = @ + 1,
                          !.pistol_rounds = IF is_pistol_round THEN @ + 1 ELSE @,
                          !.pistol_armor_buys =
                              IF is_pistol_round /\ armor_value > 0 THEN @ + 1 ELSE @,
                          !.total_damage_dealt = @ + GetattrOr0(player.damageDealt),
                          !.total_damage_taken = @ + GetattrOr0(player.damageTaken),
                          !.total_headshots = @ + GetattrOr0(player.headshots),
                          !.total_assists_given = @ + GetattrOr0(player.killAssistsGiven),
                          !.total_assists_received = @ + GetattrOr0(player.killAssistsReceived),
                          !.total_capture_ultimate_orb = @ + DebugOrbs(player.objectives),
                          !.weapon_usage = DebugWeaponUsage(@, player.weaponKills)]]

\* The body of "for segment in game.segments".
DebugSegment(player_stats, segment, target_team_name) ==
    LET is_pistol_round == segment.sequenceNumber = 1
    IN  FoldSeq(LAMBDA ps, segment_team :
                   IF segment_team.name # target_team_name THEN ps
                   ELSE FoldSeq(LAMBDA x, player : DebugSegPlayer(x, player, is_pistol_round),
                                ps, segment_team.players),
                player_stats, segment.teams)

\* The body of "for game_player in game_team.players".
DebugGamePlayer(player_stats, game_player) ==
    IF ~HasKey(player_stats, game_player.name) THEN player_stats
    ELSE [player_stats EXCEPT ![Get(player_stats, game_player.name)].weapon_usage =
              DebugWeaponUsage(@, game_player.weaponKills)]

\* The body of "for game in series.series_state.games".
DebugGame(player_stats, game, target_team_name) ==
    LET after == FoldSeq(LAMBDA ps, segment : DebugSegment(ps, segment, target_team_name),
                         player_stats, game.segments)
    IN  FoldSeq(LAMBDA ps, game_team :
                   IF game_team.name # target_team_name THEN ps
                   ELSE FoldSeq(DebugGamePlayer, ps, game_team.players),
                after, game.teams)

\* The body of "for draft_action in series.series_state.draft_actions".
DebugDraftAction(team_map_bans, draft_action) ==
    IF /\ draft_action.type = Some("ban")
       /\ TruthyObj(draft_action.drafter)
       /\ HasAttr(draft_action.drafter.v.id)
       /\ TruthyObj(draft_action.draftable)
       /\ TruthyStr(draft_action.draftable.v.name)
    THEN Add(team_map_bans, draft_action.draftable.v.name.v, 1)
    ELSE team_map_bans

\* The body of "for series in series_details" on the two aggregates.
DebugSeries(l, series, target_team_name) ==
    IF ~HasAttr(series.series_state) \/ ~TruthyObj(series.series_state) THEN l
    ELSE [team_map_bans |-> FoldSeq(DebugDraftAction, l.team_map_bans,
                                    series.series_state.v.draft_actions),
          player_stats |-> FoldSeq(LAMBDA ps, game : DebugGame(ps, game, target_team_name),
                                   l.player_stats, series.series_state.v.games)]

\* One entry of analysis_result['player_analysis']; a quotient is kept as the
\* pair of its numerator and denominator.
DebugPlayerAnalysis(stats) ==
    [k |-> stats.k,
     series_played |-> stats.series_played,
     total_rounds |-> stats.total_rounds,
     pistol_rounds_played |-> stats.pistol_rounds,
     armor_buy_rate |-> IF stats.pistol_rounds > 0
                        THEN <<stats.pistol_armor_buys * 100, stats.pistol_rounds>>
                        ELSE <<0, 1>>,
     preferred_weapon |-> IF stats.weapon_usage # <<>>
                          THEN Some(MostCommon(stats.weapon_usage, 1)[1].k) ELSE None,
     total_headshots |-> stats.total_headshots,
     total_capture_ultimate_orb |-> stats.total_capture_ultimate_orb,
     avg_damage_dealt_per_round |-> <<stats.total_damage_dealt, stats.total_rounds>>,
     avg_damage_taken_per_round |-> <<stats.total_damage_taken, stats.total_rounds>>,
     total_assists_received |-> stats.total_assists_received,
     total_assists_given |-> stats.total_assists_given,
     weapon_breakdown |-> stats.weapon_usage]

\* "Process final statistics" and the early return on an empty list.
DebugResult(series_details, l) ==
    IF series_details = <<>>
    THEN [least_favorite_map |-> None, map_ban_counts |-> <<>>, player_analysis |-> <<>>]
    ELSE [least_favorite_map |-> IF l.team_map_bans # <<>>
                                 THEN Some(MostCommonAll(l.team_map_bans)[1].k) ELSE None,
          map_ban_counts |-> l.team_map_bans,
          player_analysis |->
              FoldSeq(LAMBDA rows, stats :
                         IF stats.total_rounds = 0 THEN rows
                         ELSE Append(rows, DebugPlayerAnalysis(stats)),
                      <<>>, l.player_stats)]

InitDebug ==
    /\ AnalysisIdle
    /\ fetch = NoFetch
    /\ ui = NoSession
    /\ \E series_details \in BatchesOver(DebugUniverse, MaxBatch), target \in DebugTargets :
          ds = [phase |-> "loop", series_details |-> series_details,
                target_team_name |-> target, next |-> 1,
                team_map_bans |-> <<>>, player_stats |-> <<>>, result |-> None]

\* One iteration of "for series in series_details".
DebugStep ==
    /\ ds.phase = "loop"
    /\ ds.next <= Len(ds.series_details)
    /\ LET l == DebugSeries([team_map_bans |-> ds.team_map_bans, player_stats |-> ds.player_stats],
                            ds.series_details[ds.next], ds.target_team_name)
       IN  ds' = [ds EXCEPT !.next = @ + 1,
                            !.team_map_bans = l.team_map_bans,
                            !.player_stats = l.player_stats]
    /\ UNCHANGED <<analysisVars, fetch, ui>>

\* The statements after the loop, or the early return.
DebugReturn ==
    /\ ds.phase = "loop"
    /\ ds.next = Len(ds.series_details) + 1
    /\ ds' = [ds EXCEPT !.phase = "done",
                        !.result = Some(DebugResult(ds.series_details,
                                        [team_map_bans |-> ds.team_map_bans,
                                         player_stats |-> ds.player_stats]))]
    /\ UNCHANGED <<analysisVars, fetch, ui>>

NextDebug == DebugStep \/ DebugReturn

SpecDebug == InitDebug /\ [][NextDebug]_vars

-----------------------------------------------------------------------------

(* Vocabulary of the properties *)

Analyzers == {"weapons", "maps", "chars", "impact"}

\* The call has come back, with a value or with an exception.
Returned(r) == "pending" \notin DOMAIN r
\* The call ended with an exception.
Failed(r) == "raised" \in DOMAIN r
\* The call came back with a value.
Value(r) == Returned(r) /\ ~Failed(r)

\* The rows of player_analysis for the player called name.
RowsOf(r, name) == SelectSeq(r.player_analysis, LAMBDA e : e.player = Some(name))

Without(b, p) == SubSeq(b, 1, p - 1) \o SubSeq(b, p + 1, Len(b))

\* The three-part rule of the specification on two strings.
RuleOnStrings(observed, scouted) ==
    \/ observed = scouted
    \/ StartsWith(observed, scouted)
    \/ Contains(observed, scouted)

\* The series lacks series_state, title or short code, or carries another code.
LacksSupport(s) ==
    \/ ~IsSome(s.series_state)
    \/ ~IsSome(s.series_state.v.title)
    \/ ~IsSome(s.series_state.v.title.v.name_shortened)
    \/ s.series_state.v.title.v.name_shortened.v # "val"

\* The player name is on a roster of the scouted team in a game or a segment of s.
OnRoster(s, pname, target) ==
    LET scouted(t) == IsSome(t.name) /\ RuleOnStrings(t.name.v, target)
        listed(t) == \E q \in 1..Len(ListOrEmpty(t.players)) :
                        LET pl == ListOrEmpty(t.players)[q] IN HasAttr(pl.name) /\ pl.name = pname
        inTeams(ts) == \E x \in 1..Len(ts) : scouted(ts[x]) /\ listed(ts[x])
    IN  /\ IsSome(s.series_state)
        /\ LET games == ListOrEmpty(s.series_state.v.games)
           IN  \E g \in 1..Len(games) :
                  \/ inTeams(ListOrEmpty(games[g].teams))
                  \/ \E sg \in 1..Len(ListOrEmpty(games[g].segments)) :
                        inTeams(ListOrEmpty(ListOrEmpty(games[g].segments)[sg].teams))

SeriesListing(b, upto, pname, target) == {p \in 1..upto : OnRoster(b[p], pname, target)}

-----------------------------------------------------------------------------
(* Properties *)

\* C1: on the one series of Scenario A (aspas with sheriff 2 in the segment and
\* sheriff 2, phantom 11 in the game) scouting MIBR, analyze_player_weapons reports
\* total_kills = 13 and preferred_weapon = phantom for aspas.
C1_ScenarioA_Thirteen ==
    (batch = <<SeriesA>> /\ team = TeamMIBR /\ Returned(result.weapons)) =>
        /\ Value(result.weapons)
        /\ Len(RowsOf(result.weapons, "aspas")) = 1
        /\ RowsOf(result.weapons, "aspas")[1].total_kills = 13
        /\ RowsOf(result.weapons, "aspas")[1].preferred_weapon = Some("phantom")

\* C2: on a supported series with the draft [97 bans icebox, 81 bans corrode,
\* 97 picks lotus] and scouted id 97, analyze_map_preferences reports 2 actions,
\* 1 ban (icebox), 1 pick (lotus), and nothing of drafter 81.
C2_ScenarioB ==
    (Len(batch) = 1 /\ batch[1] \in {SeriesA, SeriesTeamsNone} /\ team = TeamMIBR
     /\ Returned(result.maps)) =>
        /\ Value(result.maps)
        /\ result.maps.total_actions = 2
        /\ result.maps.total_bans = 1
        /\ result.maps.total_picks = 1
        /\ result.maps.most_banned_maps = <<[k |-> "icebox", n |-> 1]>>
        /\ result.maps.most_picked_maps = <<[k |-> "lotus", n |-> 1]>>
        /\ result.maps.map_bans = <<[k |-> "icebox", n |-> 1]>>
        /\ result.maps.map_picks = <<[k |-> "lotus", n |-> 1]>>

C2_Witness ==
    /\ batch = <<SeriesA>> /\ team = TeamMIBR /\ Value(result.maps)
    /\ result.maps.total_actions = 2

\* C3: scouting "MIBR", the rule is true for "MIBR (1)" and false for "NRG", and
\* analyze_opponent_character_impact takes "NRG" for the opponent of the game in
\* either order of its two teams.
C3_ScenarioC ==
    /\ _is_target_team(Some(N_MIBR1), Some(N_MIBR))
    /\ ~_is_target_team(Some(N_NRG), Some(N_MIBR))
    /\ (call = "impact" /\ i = 2 /\ team = TeamMIBR /\ batch[1] \in {SeriesA, SeriesC}) =>
          /\ oi.opponent_team = Some(Some(N_NRG))
          /\ Len(oi.char_stats) = 1
          /\ oi.char_stats[1].k = Some("kayo")

C3_Witness ==
    /\ call = "impact" /\ i = 2 /\ team = TeamMIBR /\ batch[1] = SeriesC
    /\ oi.opponent_team = Some(Some(N_NRG))

\* C4: for every batch and every series without series_state in it, each analyzer
\* returns without error and returns what it returns on the batch without that series.
C4_AbsentStateAnyBatch ==
    call = "done" =>
        \A p \in 1..Len(batch) :
            ~IsSome(batch[p].series_state) =>
                /\ \A c \in Analyzers : Value(result[c])
                /\ result.weapons = analyze_player_weapons(Without(batch, p), team.name)
                /\ result.maps = analyze_map_preferences(Without(batch, p), team.id)
                /\ result.chars = analyze_map_characters(Without(batch, p), team.name)
                /\ result.impact = analyze_opponent_character_impact(Without(batch, p), team.name)

\* C5 as stated: with five rounds of damage 0 in one series and 300 damage over
\* four rounds in the other, avg_damage_dealt_per_round is 75.0.
C5_SeventyFive ==
    (batch \in {<<SeriesE1Zero, SeriesE2>>, <<SeriesE2, SeriesE1Zero>>} /\ team = TeamMIBR
     /\ Returned(result.weapons)) =>
        /\ Value(result.weapons)
        /\ Len(RowsOf(result.weapons, "aspas")) = 1
        /\ RowsOf(result.weapons, "aspas")[1].avg_damage_dealt_per_round = 750

\* C5 amended: the five rounds of damage 0 are rounds with damage data, so the
\* average is 300 / 9 = 33.3; it is 75.0 when those five rounds carry no
\* damage_dealt attribute.
C5_SumOverRoundsWithData ==
    (team = TeamMIBR /\ Returned(result.weapons)) =>
        /\ batch \in {<<SeriesE1Zero, SeriesE2>>, <<SeriesE2, SeriesE1Zero>>} =>
              /\ Value(result.weapons)
              /\ Len(RowsOf(result.weapons, "aspas")) = 1
              /\ RowsOf(result.weapons, "aspas")[1].total_damage_dealt = 300
              /\ RowsOf(result.weapons, "aspas")[1].rounds_with_damage_data = 9
              /\ RowsOf(result.weapons, "aspas")[1].avg_damage_dealt_per_round = 333
        /\ batch \in {<<SeriesE1NoData, SeriesE2>>, <<SeriesE2, SeriesE1NoData>>} =>
              /\ Value(result.weapons)
              /\ Len(RowsOf(result.weapons, "aspas")) = 1
              /\ RowsOf(result.weapons, "aspas")[1].total_damage_dealt = 300
              /\ RowsOf(result.weapons, "aspas")[1].rounds_with_damage_data = 4
              /\ RowsOf(result.weapons, "aspas")[1].avg_damage_dealt_per_round = 750

C5_Witness ==
    /\ batch = <<SeriesE1Zero, SeriesE2>> /\ team = TeamMIBR /\ Value(result.weapons)
    /\ RowsOf(result.weapons, "aspas")[1].avg_damage_dealt_per_round = 333

\* C6: series_played of a player never exceeds the number of series of the batch
\* that list the player's name on a scouted-team roster of a game or a segment,
\* both while the series are being counted and in the result.
C6_SeriesPlayedBound ==
    /\ (call = "weapons" /\ i >= 1) =>
          \A j \in 1..Len(pw.player_series_count) :
              pw.player_series_count[j].n
                  <= Cardinality(SeriesListing(batch, i - 1, pw.player_series_count[j].k, team.name))
    /\ Value(result.weapons) =>
          \A j \in 1..Len(result.weapons.player_analysis) :
              LET e == result.weapons.player_analysis[j]
              IN  e.series_played <= Cardinality(SeriesListing(batch, Len(batch), e.player, team.name))

\* SeriesE1Zero lists aspas in two games and five segments and SeriesE2 in one
\* game and four segments: two series played.
C6_Witness ==
    /\ batch = <<SeriesE2, SeriesE1Zero>> /\ team = TeamMIBR /\ Value(result.weapons)
    /\ RowsOf(result.weapons, "aspas")[1].series_played = 2

\* C7 as stated: for every pair of name strings the decision of _is_target_team is
\* the three-part rule (equal, or starts with, or contains).
C7_RuleOnEveryPair ==
    (verdict # <<>> /\ IsSome(obs.team_name) /\ IsSome(obs.target_name)) =>
        verdict[1] = RuleOnStrings(obs.team_name.v, obs.target_name.v)

\* C7 amended: the decision is the three-part rule for every pair of non-empty
\* name strings, and it is false when either name is empty or None.
C7_RuleOnNonEmptyPairs ==
    verdict # <<>> =>
        IF /\ IsSome(obs.team_name) /\ obs.team_name.v # <<>>
           /\ IsSome(obs.target_name) /\ obs.target_name.v # <<>>
        THEN verdict[1] = RuleOnStrings(obs.team_name.v, obs.target_name.v)
        ELSE verdict[1] = FALSE

\* A match by the substring clause alone.
C7_Witness ==
    /\ verdict = <<TRUE>>
    /\ obs.team_name.v # obs.target_name.v
    /\ ~StartsWith(obs.team_name.v, obs.target_name.v)

\* C8: the step of an analyzer over a series that lacks series_state, title or
\* short code, or carries another code than "val", changes no counter of any
\* analyzer and raises nothing.
C8_UnsupportedSeriesContributesNothing ==
    [][(i >= 1 /\ i' = i + 1 /\ LacksSupport(batch[i])) =>
          /\ mp' = mp /\ mc' = mc /\ oi' = oi /\ pw' = pw
          /\ (call = "weapons" => ~pw'.raised)
          /\ (call = "maps" => ~mp'.raised)
          /\ (call = "chars" => ~mc'.raised)
          /\ (call = "impact" => ~oi'.raised)]_vars

\* A series of another title has just been stepped over, the counters of the
\* series before it still standing.
C8_Witness ==
    /\ call = "maps" /\ i = 3 /\ batch[1] = SeriesA /\ batch[2] = SeriesOtherCode
    /\ team = TeamMIBR /\ mp.total_actions = 2

\* C9: a second run of an analyzer on the same batch returns what the first run
\* returned, and no step of any run changes the batch.
C9_Idempotent ==
    [][/\ batch' = batch
       /\ team' = team
       /\ \A c \in Analyzers :
             (Returned(result'[c]) /\ Returned(previous'[c])) => result'[c] = previous'[c]]_vars

C9_Witness ==
    /\ run = 2 /\ call = "done" /\ result = previous
    /\ Value(result.weapons) /\ result.weapons.total_players_analyzed > 0
    /\ Value(result.maps) /\ result.maps.total_actions > 0

\* C10: no analyzer raises, whichever optional sub-field of the telemetry is absent.
C10_NeverRaises ==
    \A c \in Analyzers : ~Failed(result[c])

\* Every count of a Counter is a non-negative integer.
NonNegCounter(c) == \A j \in 1..Len(c) : c[j].n \in Nat

\* C13: every count in every analyzer's output is a non-negative integer: total_kills,
\* per-weapon kills, series_played, side kills and rounds, damage totals and rounds,
\* bans, picks, total_actions, map-character counts, games_played, total_rounds.
C13_CountsNonNegative ==
    /\ Value(result.weapons) =>
          /\ result.weapons.total_players_analyzed \in Nat
          /\ \A j \in 1..Len(result.weapons.player_analysis) :
                LET e == result.weapons.player_analysis[j]
                IN  /\ e.total_kills \in Nat
                    /\ e.series_played \in Nat
                    /\ e.preferred_weapon_kills \in Nat
                    /\ NonNegCounter(e.all_weapons)
                    /\ NonNegCounter(e.weapon_breakdown)
                    /\ \A side \in {"attacker", "defender"} :
                          /\ e.kills_by_side[side].kills \in Nat
                          /\ e.kills_by_side[side].rounds \in Nat
                    /\ e.total_damage_dealt \in Nat
                    /\ e.rounds_with_damage_data \in Nat
    /\ Value(result.maps) =>
          /\ result.maps.total_actions \in Nat
          /\ result.maps.total_bans \in Nat
          /\ result.maps.total_picks \in Nat
          /\ NonNegCounter(result.maps.map_bans)
          /\ NonNegCounter(result.maps.map_picks)
          /\ NonNegCounter(result.maps.most_banned_maps)
          /\ NonNegCounter(result.maps.most_picked_maps)
          /\ NonNegCounter(result.maps.least_banned_maps)
    /\ Value(result.chars) =>
          \A j \in 1..Len(result.chars.by_map) : NonNegCounter(result.chars.by_map[j].chars)
    /\ Value(result.impact) =>
          \A j \in 1..Len(result.impact.ranking) :
              LET r == result.impact.ranking[j]
              IN  /\ r.games_played \in Nat
                  /\ r.total_kills \in Nat
                  /\ r.total_damage \in Nat
                  /\ r.total_rounds \in Nat

\* All four analyzers have returned counts that are not all zero.
C13_Witness ==
    /\ call = "done" /\ batch = <<SeriesA, SeriesE2>> /\ team = TeamMIBR
    /\ \A c \in Analyzers : Value(result[c])
    /\ result.weapons.player_analysis[1].total_kills > 0
    /\ result.weapons.player_analysis[1].total_damage_dealt > 0
    /\ result.maps.total_bans > 0
    /\ result.chars.by_map # <<>>
    /\ result.impact.ranking # <<>>
    /\ result.impact.ranking[1].total_kills > 0

\* The draft actions of the batch, as <<series, action>> positions, over supported
\* series, whose drafter id is the scouted id and whose type and map name are present.
CompleteActions(b, target_id) ==
    {pj \in UNION {{<<p, j>> : j \in 1..Len(ListOrEmpty(b[p].series_state.v.draft_actions))} :
                     p \in {q \in 1..Len(b) : ~LacksSupport(b[q])}} :
        LET a == b[pj[1]].series_state.v.draft_actions.v[pj[2]]
        IN  /\ IsSome(a.drafter) /\ IsSome(a.drafter.v.id)
            /\ Str(a.drafter.v.id.v) = Str(target_id)
            /\ TruthyStr(a.type)
            /\ IsSome(a.draftable) /\ TruthyStr(a.draftable.v.name)}

\* The draft actions of the batch, over supported series, whose drafter id is the
\* scouted id.
ActionsOfDrafter(b, target_id) ==
    {pj \in UNION {{<<p, j>> : j \in 1..Len(ListOrEmpty(b[p].series_state.v.draft_actions))} :
                     p \in {q \in 1..Len(b) : ~LacksSupport(b[q])}} :
        LET a == b[pj[1]].series_state.v.draft_actions.v[pj[2]]
        IN  /\ IsSome(a.drafter) /\ IsSome(a.drafter.v.id)
            /\ Str(a.drafter.v.id.v) = Str(target_id)}

\* C15: total_actions of analyze_map_preferences is the number of draft actions, over
\* supported series, whose drafter id matches the scouted id and whose type and
\* map name are both present; actions of an absent or another drafter are not counted.
C15_TotalActionsAreCompleteActions ==
    Value(result.maps) =>
        result.maps.total_actions = Cardinality(CompleteActions(batch, team.id))

\* C15 amended: total_actions is the number of draft actions, over supported series,
\* whose drafter id matches the scouted id, whether or not their type and map name
\* are present; actions of an absent or another drafter are not counted, and the
\* actions that lack a type or a map name add to no ban or pick counter.
C15_TotalActionsAreDrafterActions ==
    Value(result.maps) =>
        /\ result.maps.total_actions = Cardinality(ActionsOfDrafter(batch, team.id))
        /\ result.maps.total_bans + result.maps.total_picks
              <= Cardinality(CompleteActions(batch, team.id))

\* Five actions of drafter 97, two of them with a type and a map name.
C15_Witness ==
    /\ batch = <<SeriesPartialDrafts>> /\ team = TeamMIBR /\ Value(result.maps)
    /\ result.maps.total_actions = 5
    /\ Cardinality(CompleteActions(batch, team.id)) = 2
    /\ result.maps.total_bans = 1

\* Every listed count is the key's entry in the counter.
ListedFrom(list, counter) ==
    \A a \in 1..Len(list) : HasKey(counter, list[a].k) /\ Count(counter, list[a].k) = list[a].n

\* list holds the (at most n) keys of the highest counts of counter, in descending
\* count order, keys of equal count in the order the counter first saw them.
TopOf(list, counter, n) ==
    /\ Len(list) <= n
    /\ Len(list) = (IF Len(counter) < n THEN Len(counter) ELSE n)
    /\ ListedFrom(list, counter)
    /\ \A a, b \in 1..Len(list) :
          a < b => \/ list[a].n > list[b].n
                   \/ list[a].n = list[b].n /\ Get(counter, list[a].k) < Get(counter, list[b].k)
    /\ \A j \in 1..Len(counter) :
          (\A a \in 1..Len(list) : list[a].k # counter[j].k) =>
              \A a \in 1..Len(list) :
                  \/ list[a].n > counter[j].n
                  \/ list[a].n = counter[j].n /\ Get(counter, list[a].k) < j

MostOf(list, counter) == TopOf(list, counter, 5)

\* list holds the (at most five) maps of the lowest counts of counter, in ascending
\* count order, each banned at least once.
LeastOf(list, counter) ==
    /\ Len(list) <= 5
    /\ Len(list) = (IF Len(counter) < 5 THEN Len(counter) ELSE 5)
    /\ ListedFrom(list, counter)
    /\ \A a \in 1..Len(list) : list[a].n >= 1
    /\ \A a, b \in 1..Len(list) : a < b => list[a].n <= list[b].n /\ list[a].k # list[b].k
    /\ \A j \in 1..Len(counter) :
          (\A a \in 1..Len(list) : list[a].k # counter[j].k) =>
              \A a \in 1..Len(list) : list[a].n <= counter[j].n

\* C16: most_banned_maps and most_picked_maps each hold at most 5 maps in descending
\* count order with ties in first-seen order; least_banned_maps holds at most 5 maps,
\* all banned at least once, in ascending count order; each listed count is the
\* map's entry in map_bans or map_picks.
C16_TopFiveMaps ==
    Value(result.maps) =>
        /\ MostOf(result.maps.most_banned_maps, result.maps.map_bans)
        /\ MostOf(result.maps.most_picked_maps, result.maps.map_picks)
        /\ LeastOf(result.maps.least_banned_maps, result.maps.map_bans)

\* Seven maps banned and six picked, with ties: two maps are left out of each list
\* of bans and one of the list of picks.
C16_Witness ==
    /\ batch = <<SeriesBans1, SeriesBans2>> /\ team = TeamMIBR /\ Value(result.maps)
    /\ Len(result.maps.map_bans) = 7
    /\ Len(result.maps.map_picks) = 6
    /\ Len(result.maps.most_banned_maps) = 5
    /\ result.maps.most_banned_maps[2].n = result.maps.most_banned_maps[3].n
    /\ Len(result.maps.least_banned_maps) = 5
    /\ result.maps.least_banned_maps[1].n < result.maps.least_banned_maps[5].n

\* C14: an average with a zero denominator is reported as 0 and the call does not
\* raise: avg_kills of a side without recorded rounds, avg_damage_dealt_per_round of
\* a player without a round of damage data, avg_damage_per_round of a character
\* whose total_rounds is 0.
C14_ZeroDenominatorGivesZero ==
    /\ Returned(result.weapons) =>
          /\ Value(result.weapons)
          /\ \A j \in 1..Len(result.weapons.player_analysis) :
                LET e == result.weapons.player_analysis[j]
                IN  /\ \A side \in {"attacker", "defender"} :
                          e.kills_by_side[side].rounds = 0 => e.kills_by_side[side].avg_kills = 0
                    /\ e.rounds_with_damage_data = 0 => e.avg_damage_dealt_per_round = 0
    /\ Returned(result.impact) =>
          /\ Value(result.impact)
          /\ \A j \in 1..Len(result.impact.ranking) :
                result.impact.ranking[j].total_rounds = 0 =>
                    result.impact.ranking[j].avg_damage_per_round = 0

\* aspas has weapon kills but no round on either side and no damage data, and kayo
\* was seen in a game without segments.
C14_Witness ==
    /\ call = "done" /\ batch = <<SeriesTie1>> /\ team = TeamMIBR
    /\ Value(result.weapons) /\ Value(result.impact)
    /\ Len(result.weapons.player_analysis) = 1
    /\ result.weapons.player_analysis[1].kills_by_side.attacker.rounds = 0
    /\ result.weapons.player_analysis[1].kills_by_side.defender.rounds = 0
    /\ result.weapons.player_analysis[1].rounds_with_damage_data = 0
    /\ Len(result.impact.ranking) = 1
    /\ result.impact.ranking[1].total_rounds = 0

\* The kills of the weapon credited to the player once the first p series of the
\* batch have been analyzed.
CountAfter(b, p, target, player, weapon) ==
    LET l == FoldSeq(LAMBDA x, s : PlayerWeaponsSeries(x, s, target), PlayerWeaponsLocals,
                     SubSeq(b, 1, p))
    IN  IF HasKey(l.player_weapons, player)
        THEN Count(l.player_weapons[Get(l.player_weapons, player)].w, weapon)
        ELSE 0

\* The first series of the batch after which the weapon stands at n kills or more.
ReachedAt(b, target, player, weapon, n) ==
    CHOOSE p \in 1..Len(b) :
        /\ CountAfter(b, p, target, player, weapon) >= n
        /\ \A q \in 1..(p - 1) : CountAfter(b, q, target, player, weapon) < n

\* C17 as stated: weapon_breakdown holds at most 3 weapons in descending count
\* order, and of two weapons of equal count the one that reached that count in an
\* earlier series sorts first; preferred_weapon is the first of them.
C17_TieByFirstToReachCount ==
    (call = "done" /\ Value(result.weapons)) =>
        \A j \in 1..Len(result.weapons.player_analysis) :
            LET e == result.weapons.player_analysis[j]
                wb == e.weapon_breakdown
            IN  /\ Len(wb) <= 3
                /\ e.preferred_weapon = Some(wb[1].k)
                /\ \A a, b \in 1..Len(wb) :
                      a < b =>
                          /\ wb[a].n >= wb[b].n
                          /\ wb[a].n = wb[b].n =>
                                ReachedAt(batch, team.name, e.player, wb[a].k, wb[a].n)
                                    <= ReachedAt(batch, team.name, e.player, wb[b].k, wb[b].n)

\* C17 amended: weapon_breakdown holds at most 3 weapons, those of the highest kill
\* counts in descending order, and of two weapons of equal count the one first
\* credited with a kill (the earlier key of all_weapons) sorts first, whichever
\* reached the tied count first; preferred_weapon is the first of them.
C17_TieByFirstEncounter ==
    (call = "done" /\ Value(result.weapons)) =>
        \A j \in 1..Len(result.weapons.player_analysis) :
            LET e == result.weapons.player_analysis[j]
                wb == e.weapon_breakdown
            IN  /\ TopOf(wb, e.all_weapons, 3)
                /\ e.preferred_weapon = Some(wb[1].k)
                /\ e.preferred_weapon_kills = wb[1].n
                /\ \A a, b \in 1..Len(e.all_weapons) :
                      a < b => ReachedAt(batch, team.name, e.player, e.all_weapons[a].k, 1)
                                  <= ReachedAt(batch, team.name, e.player, e.all_weapons[b].k, 1)

\* Five weapons at 2 kills each: sheriff, first seen, leads although phantom stood
\* at 2 one series earlier.
C17_Witness ==
    /\ call = "done" /\ batch = <<SeriesTie1, SeriesTie2>> /\ team = TeamMIBR /\ Value(result.weapons)
    /\ Len(result.weapons.player_analysis[1].all_weapons) = 5
    /\ Len(result.weapons.player_analysis[1].weapon_breakdown) = 3
    /\ result.weapons.player_analysis[1].preferred_weapon = Some("sheriff")
    /\ result.weapons.player_analysis[1].weapon_breakdown[2] = [k |-> "phantom", n |-> 2]
    /\ ReachedAt(batch, team.name, Some("aspas"), "phantom", 2) = 1
    /\ ReachedAt(batch, team.name, Some("aspas"), "sheriff", 2) = 2

\* The sum of F over the elements of the sequence s.
RECURSIVE SumOver(_, _)
SumOver(F(_), s) == IF s = <<>> THEN 0 ELSE F(s[1]) + SumOver(F, Tail(s))

\* The team carries a name that the three-part rule resolves to the scouted name.
ScoutedTeam(t, target) == IsSome(t.name) /\ RuleOnStrings(t.name.v, target)

\* The weapon kills tallied for the player name in a list of teams: every tally with
\* a weapon name and a non-zero count, of every scouted-team player of that name.
TalliedIn(teams, pname, target) ==
    SumOver(LAMBDA t :
                IF ScoutedTeam(t, target)
                THEN SumOver(LAMBDA pl :
                                 IF pl.name = pname
                                 THEN SumOver(LAMBDA wk : IF TruthyStr(wk.weapon_name) /\ TruthyInt(wk.count)
                                                          THEN wk.count.v ELSE 0,
                                              ListOrEmpty(pl.weapon_kills))
                                 ELSE 0,
                             ListOrEmpty(t.players))
                ELSE 0,
            teams)

\* The weapon kills credited to the player name over the supported series of the
\* batch, in the game-level and the segment-level tallies.
Credited(b, pname, target) ==
    SumOver(LAMBDA s :
                IF LacksSupport(s) THEN 0
                ELSE SumOver(LAMBDA g :
                                 TalliedIn(ListOrEmpty(g.teams), pname, target)
                                 + SumOver(LAMBDA sg : TalliedIn(ListOrEmpty(sg.teams), pname, target),
                                           ListOrEmpty(g.segments)),
                             ListOrEmpty(s.series_state.v.games)),
            b)

\* Every player name the batch records, in a team of a game or of a segment.
PlayerNames(b) ==
    LET of(teams) == UNION {{ListOrEmpty(teams[x].players)[q].name :
                               q \in 1..Len(ListOrEmpty(teams[x].players))} : x \in 1..Len(teams)}
    IN  UNION {UNION {of(ListOrEmpty(g.teams))
                      \cup UNION {of(ListOrEmpty(ListOrEmpty(g.segments)[sg].teams)) :
                                    sg \in 1..Len(ListOrEmpty(g.segments))} :
                      g \in {ListOrEmpty(b[p].series_state.v.games)[x] :
                               x \in 1..Len(ListOrEmpty(b[p].series_state.v.games))}} :
               p \in {q \in 1..Len(b) : IsSome(b[q].series_state)}}

\* C18: a player is in player_analysis if and only if the player is credited with a
\* total weapon-kill count greater than zero, and total_players_analyzed is the
\* number of such players.
C18_AnalyzedIffCredited ==
    (call = "done" /\ Value(result.weapons)) =>
        LET rows == result.weapons.player_analysis
            credited == {name \in PlayerNames(batch) : Credited(batch, name, team.name) > 0}
        IN  /\ \A name \in PlayerNames(batch) :
                  (\E j \in 1..Len(rows) : rows[j].player = name) <=> name \in credited
            /\ \A j \in 1..Len(rows) : rows[j].player \in credited
            /\ \A j, h \in 1..Len(rows) : j # h => rows[j].player # rows[h].player
            /\ result.weapons.total_players_analyzed = Cardinality(credited)
            /\ Len(rows) = Cardinality(credited)

\* aspas is analyzed; less, on the scouted roster without a weapon kill, is not.
C18_Witness ==
    /\ call = "done" /\ batch = <<SeriesTie1, SeriesBothScouted>> /\ team = TeamMIBR
    /\ Value(result.weapons)
    /\ result.weapons.total_players_analyzed = 1
    /\ result.weapons.player_analysis[1].player = Some("aspas")
    /\ HasKey(pw.player_series_count, Some("less"))
    /\ Credited(batch, Some("less"), team.name) = 0

\* The number of teams of the game that resolve to the scouted team.
ScoutedCount(game, target) ==
    Cardinality({x \in 1..Len(ListOrEmpty(game.teams)) :
                    LET t == ListOrEmpty(game.teams)[x]
                    IN  HasAttr(t.name) /\ _is_target_team(t.name, Some(target))})

\* The game has other than exactly two teams, or none or both of its teams resolve
\* to the scouted team.
NoSingleOpponent(game, target) ==
    \/ Len(ListOrEmpty(game.teams)) # 2
    \/ ScoutedCount(game, target) # 1

\* The series with the games that satisfy Keep only.
WithGames(series, Keep(_)) ==
    [series EXCEPT !.series_state.v.games.v = SelectSeq(@, Keep)]

\* C19: analyze_opponent_character_impact skips every game that has other than
\* exactly two teams, or of which none or both teams resolve to the scouted team:
\* a series adds to char_stats what it adds without those games, the other games of
\* the series being processed.
C19_SkipsGamesWithoutSingleOpponent ==
    [][(call = "impact" /\ i >= 1 /\ i' = i + 1 /\ ~LacksSupport(batch[i])
        /\ IsSome(batch[i].series_state.v.games)) =>
          /\ ~oi'.raised
          /\ oi'.char_stats =
                OppImpactSeries(oi, WithGames(batch[i], LAMBDA g : ~NoSingleOpponent(g, team.name)),
                                team.name).char_stats]_vars

\* The number of segments of the game that include a team other than the scouted one.
SegmentsWithOpponent(game, target) ==
    Cardinality({x \in 1..Len(ListOrEmpty(game.segments)) :
                    \E y \in 1..Len(ListOrEmpty(ListOrEmpty(game.segments)[x].teams)) :
                        LET t == ListOrEmpty(ListOrEmpty(game.segments)[x].teams)[y]
                        IN  HasAttr(t.name) /\ ~_is_target_team(t.name, Some(target))})

\* The character is recorded for a player of the game's opponent team.
OnOpponentRoster(game, target, char_name) ==
    LET o == OpponentIndex(game.teams.v, target)
    IN  /\ o # 0
        /\ \E q \in 1..Len(ListOrEmpty(game.teams.v[o].players)) :
              LET p == ListOrEmpty(game.teams.v[o].players)[q]
              IN  HasAttr(p.name) /\ IsSome(p.character) /\ p.character.v.name = char_name

\* total_rounds of the character in char_stats, 0 when it has no entry.
RoundsOf(cs, char_name) == IF HasKey(cs, char_name) THEN cs[Get(cs, char_name)].total_rounds ELSE 0

\* C20: the rounds a game adds to a character's total_rounds are the number of the
\* game's segments that include the opponent team, once per segment whatever the
\* number of opponent players; a segment without the opponent team adds no round.
\* Stated on the series of one game with exactly one opponent team.
C20_RoundsAreSegmentsWithOpponent ==
    [][(call = "impact" /\ i >= 1 /\ i' = i + 1 /\ ~LacksSupport(batch[i])
        /\ Len(ListOrEmpty(batch[i].series_state.v.games)) = 1
        /\ ~NoSingleOpponent(batch[i].series_state.v.games.v[1], team.name)) =>
          LET game == batch[i].series_state.v.games.v[1]
          IN  \A j \in 1..Len(oi'.char_stats) :
                  LET c == oi'.char_stats[j].k
                  IN  RoundsOf(oi'.char_stats, c) - RoundsOf(oi.char_stats, c)
                          = IF OnOpponentRoster(game, team.name, c)
                            THEN SegmentsWithOpponent(game, team.name) ELSE 0]_vars

\* The records of the ids whose task completed with a record, in the order of the ids.
RECURSIVE RecordsInIdOrder(_, _)
RecordsInIdOrder(series_ids, outcome) ==
    IF series_ids = <<>> THEN <<>>
    ELSE (IF IsSome(outcome[1]) THEN <<DetailOf(series_ids[1])>> ELSE <<>>)
         \o RecordsInIdOrder(Tail(series_ids), Tail(outcome))

\* C11: get_series_details issues one fetch per series id, and for every combination
\* of per-id outcomes (record, None, exception) and every completion order it
\* returns exactly the records of the ids whose fetch gave a record, in the order
\* of the input ids; a failed fetch removes no other record and does not make the
\* call fail.
C11_ReturnsRecordsInIdOrder ==
    /\ Len(fetch.outcome) = Len(fetch.series_ids)
    /\ fetch.phase = "returned" =>
          /\ ~fetch.failed
          /\ fetch.returned = [list |-> RecordsInIdOrder(fetch.series_ids, fetch.outcome)]
    /\ fetch.phase = "filter" =>
          fetch.valid_responses
              = RecordsInIdOrder(SubSeq(fetch.series_ids, 1, fetch.k - 1),
                                 SubSeq(fetch.outcome, 1, fetch.k - 1))

\* The second task completed first, with a record, and the first with an exception:
\* the call returned the one record.
C11_Witness ==
    /\ fetch.phase = "returned"
    /\ fetch.series_ids = <<1, 2>>
    /\ fetch.done = <<2, 1>>
    /\ fetch.outcome[1] = Exception
    /\ fetch.returned = [list |-> <<SeriesC>>]

\* C12: the value a cached analyzer call returns is what the analyzer computes on
\* the arguments of that call: after any sequence of UI steps, every result the
\* analysis section displays equals the uncached computation on the batch, the
\* scouted team and the window of the run that displays it.
C12_CachedEqualsUncached ==
    ui.phase = "session" /\ ui.shown # NotShown =>
        \A c \in Analyzers : ui.shown[c] = Compute(c, ui.args.series_details, ui.args.team)

\* games_played of the character in char_stats, 0 when it has no entry.
GamesOf(cs, char_name) == IF HasKey(cs, char_name) THEN cs[Get(cs, char_name)].games_played ELSE 0

\* The number of games of the series in which the character is recorded on the
\* roster of the opponent team.
GamesObservedIn(series, target, char_name) ==
    LET games == ListOrEmpty(series.series_state.v.games)
    IN  Cardinality({g \in 1..Len(games) :
                        /\ Len(ListOrEmpty(games[g].teams)) >= 2
                        /\ OnOpponentRoster(games[g], target, char_name)})

\* C21: a character's games_played increases by exactly one for each game in which
\* the character was observed on the opponent roster, whatever the number of rounds
\* of the game and the number of opponent players recorded with the character: a
\* series adds to games_played the number of its games the character was observed in.
C21_GamesPlayedOncePerGame ==
    [][(call = "impact" /\ i >= 1 /\ i' = i + 1 /\ ~LacksSupport(batch[i]) /\ ~oi'.raised) =>
          \A j \in 1..Len(oi'.char_stats) :
              LET c == oi'.char_stats[j].k
              IN  GamesOf(oi'.char_stats, c) - GamesOf(oi.char_stats, c)
                      = GamesObservedIn(batch[i], team.name, c)]_vars

\* Row x is at or above row y by average kills per game = total_kills / games_played,
\* then by average damage per round = total_damage / max(total_rounds, 1), the
\* quotients compared exactly.
RanksAtOrAbove(x, y) ==
    LET xr == IF x.total_rounds = 0 THEN 1 ELSE x.total_rounds
        yr == IF y.total_rounds = 0 THEN 1 ELSE y.total_rounds
    IN  \/ x.total_kills * y.games_played > y.total_kills * x.games_played
        \/ /\ x.total_kills * y.games_played = y.total_kills * x.games_played
           /\ x.total_damage * yr >= y.total_damage * xr

\* C22: the list returned by analyze_opponent_character_impact is sorted descending
\* by average kills per game = total_kills / games_played, then by average damage
\* per round = total_damage / max(total_rounds, 1): of any two characters of the
\* list the one with the strictly greater total_kills / games_played comes first.
C22_SortedByAverages ==
    call = "done" /\ Value(result.impact) =>
        LET ranking == result.impact.ranking
        IN  \A a, b \in 1..Len(ranking) : a < b => RanksAtOrAbove(ranking[a], ranking[b])

\* The games of the supported series of the batch, as a set.
GamesIn(b) ==
    UNION {{ListOrEmpty(b[p].series_state.v.games)[g] :
              g \in 1..Len(ListOrEmpty(b[p].series_state.v.games))} :
           p \in {q \in 1..Len(b) : ~LacksSupport(b[q])}}

\* Every map name and every character name the games of the batch record.
MapNamesIn(b) ==
    {g.map.v.name.v : g \in {x \in GamesIn(b) : IsSome(x.map) /\ IsSome(x.map.v.name)}}
CharNamesIn(b) ==
    LET players(t) == {ListOrEmpty(t.players)[q] : q \in 1..Len(ListOrEmpty(t.players))}
        recorded(t) == {pl \in players(t) : IsSome(pl.character) /\ IsSome(pl.character.v.name)}
    IN  UNION {UNION {{pl.character.v.name.v : pl \in recorded(ListOrEmpty(g.teams)[x])} :
                      x \in 1..Len(ListOrEmpty(g.teams))} :
               g \in GamesIn(b)}

\* What one game adds to the counter of (map_name, char_name): the players recorded
\* with the character in the first team of the game that resolves to the scouted
\* name, when the game carries the map name; its segments add nothing.
GameAddsTo(g, target, map_name, char_name) ==
    LET teams == ListOrEmpty(g.teams)
        scouted == {x \in 1..Len(teams) : ScoutedTeam(teams[x], target)}
    IN  IF IsSome(g.map) /\ g.map.v.name = Some(map_name) /\ scouted # {}
        THEN LET first == CHOOSE x \in scouted : \A y \in scouted : x <= y
                 players == ListOrEmpty(teams[first].players)
             IN  Cardinality({q \in 1..Len(players) :
                                 /\ IsSome(players[q].character)
                                 /\ players[q].character.v.name = Some(char_name)})
        ELSE 0

\* The sum of GameAddsTo over the games of the supported series of the batch.
ExpectedMapChar(b, target, map_name, char_name) ==
    SumOver(LAMBDA s :
                IF LacksSupport(s) THEN 0
                ELSE SumOver(LAMBDA g : GameAddsTo(g, target, map_name, char_name),
                             ListOrEmpty(s.series_state.v.games)),
            b)

\* The count listed for (map_name, char_name) in the result, 0 when it lists none.
ListedMapChar(r, map_name, char_name) ==
    IF HasKey(r.by_map, map_name)
    THEN Count(r.by_map[Get(r.by_map, map_name)].chars, char_name)
    ELSE 0

\* C23: in analyze_map_characters each game with a map name adds exactly one to the
\* (map, character) counter for each scouted-team player of the game with a recorded
\* character, taken from one matching team only and never per round; a game without
\* a map name adds nothing; for every map the listed pairs are sorted by count,
\* descending.
C23_OnePerPlayerGame ==
    call = "done" /\ Value(result.chars) =>
        /\ \A m \in MapNamesIn(batch) \ {""}, c \in CharNamesIn(batch) \ {""} :
              ListedMapChar(result.chars, m, c) = ExpectedMapChar(batch, team.name, m, c)
        /\ \A j \in 1..Len(result.chars.by_map) :
              LET e == result.chars.by_map[j]
              IN  /\ e.k \in MapNamesIn(batch) \ {""}
                  /\ \A a \in 1..Len(e.chars) :
                        /\ e.chars[a].k \in CharNamesIn(batch) \ {""}
                        /\ e.chars[a].n >= 1
                        /\ \A b \in 1..Len(e.chars) : a < b => e.chars[a].n >= e.chars[b].n

\* C23 witness: MIBR scouted on the series whose first game lists two teams named
\* MIBR and on the series with three games without a map name: only viper of the
\* first MIBR team is counted on bind, and jett once per game with a map on lotus.
C23_Witness ==
    /\ call = "done" /\ Value(result.chars)
    /\ batch = <<SeriesBothScouted, SeriesNoMap>> /\ team = TeamMIBR
    /\ ListedMapChar(result.chars, "bind", "viper") = 1
    /\ ListedMapChar(result.chars, "bind", "jett") = 0
    /\ ListedMapChar(result.chars, "lotus", "jett") = 2

\* C24: Scout Team clears the four analyzer caches before it fetches the series
\* list, so what is shown from that request on is computed from the batch fetched
\* for it and never taken from a result cached before it: the run of the request
\* shows, for each analyzer, the value of its body on the details that run fetched,
\* and leaves in the caches nothing but those values.
C24_ScoutShowsFreshResults ==
    [][ScoutTeam =>
          /\ ui'.shown # NotShown =>
                \A c \in Analyzers :
                    ui'.shown[c] = Compute(c, ui'.args.series_details, ui'.args.team)
          /\ \A c \in Analyzers : \A e \in ui'.cache[c] :
                /\ ui'.shown # NotShown
                /\ e.value = ui'.shown[c]]_vars

\* C24 witness: NRG is scouted over the window of four months, the only one that
\* lists a series of NRG, and the results shown are those of NRG's series.
C24_Witness ==
    /\ ui.phase = "session" /\ ui.shown # NotShown
    /\ ui.args.team = TeamNRG /\ ui.months_back = 4
    /\ IsSome(ui.series_list) /\ ui.series_list.v.for_team = TeamNRG
    /\ \A c \in Analyzers : ui.shown[c] = Compute(c, <<DetailOf(2)>>, TeamNRG)
    /\ \A c \in Analyzers : ui.cache[c] # {}

\* The kills of the weapon tallied for the player name in a list of teams: every
\* tally of that weapon with a non-zero count, of every scouted-team player of that
\* name.
TalliedWeaponIn(teams, pname, weapon, target) ==
    SumOver(LAMBDA t :
                IF ScoutedTeam(t, target)
                THEN SumOver(LAMBDA pl :
                                 IF pl.name = pname
                                 THEN SumOver(LAMBDA wk : IF wk.weapon_name = Some(weapon) /\ TruthyInt(wk.count)
                                                          THEN wk.count.v ELSE 0,
                                              ListOrEmpty(pl.weapon_kills))
                                 ELSE 0,
                             ListOrEmpty(t.players))
                ELSE 0,
            teams)

\* The game-level tallies of the weapon over the games of the supported series.
GameLevelKills(b, pname, weapon, target) ==
    SumOver(LAMBDA s :
                IF LacksSupport(s) THEN 0
                ELSE SumOver(LAMBDA g : TalliedWeaponIn(ListOrEmpty(g.teams), pname, weapon, target),
                             ListOrEmpty(s.series_state.v.games)),
            b)

\* The segment-level tallies of the weapon over the segments of those games.
SegmentLevelKills(b, pname, weapon, target) ==
    SumOver(LAMBDA s :
                IF LacksSupport(s) THEN 0
                ELSE SumOver(LAMBDA g :
                                 SumOver(LAMBDA sg : TalliedWeaponIn(ListOrEmpty(sg.teams), pname, weapon, target),
                                         ListOrEmpty(g.segments)),
                             ListOrEmpty(s.series_state.v.games)),
            b)

\* Every weapon name a tally of the batch carries.
WeaponNamesIn(b) ==
    LET players(t) == {ListOrEmpty(t.players)[q] : q \in 1..Len(ListOrEmpty(t.players))}
        tallies(pl) == {ListOrEmpty(pl.weapon_kills)[q] : q \in 1..Len(ListOrEmpty(pl.weapon_kills))}
        of(teams) == UNION {UNION {{wk.weapon_name.v : wk \in {y \in tallies(pl) : IsSome(y.weapon_name)}} :
                                   pl \in players(teams[x])} : x \in 1..Len(teams)}
    IN  UNION {of(ListOrEmpty(g.teams))
               \cup UNION {of(ListOrEmpty(ListOrEmpty(g.segments)[sg].teams)) :
                             sg \in 1..Len(ListOrEmpty(g.segments))} :
               g \in GamesIn(b)}

\* C25: for every player of the result of analyze_player_weapons the kill count of
\* each weapon in all_weapons is the sum of the player's game-level tallies of the
\* weapon over all games plus the sum of the player's segment-level tallies over all
\* segments, over the supported series; a tally with an empty weapon name or a zero
\* count adds nothing.
C25_GameLevelPlusSegmentLevel ==
    (call = "done" /\ Value(result.weapons)) =>
        \A j \in 1..Len(result.weapons.player_analysis) :
            LET row == result.weapons.player_analysis[j]
            IN  /\ \A w \in WeaponNamesIn(batch) \ {""} :
                      Count(row.all_weapons, w)
                          = GameLevelKills(batch, row.player, w, team.name)
                            + SegmentLevelKills(batch, row.player, w, team.name)
                /\ \A a \in 1..Len(row.all_weapons) :
                      /\ row.all_weapons[a].k \in WeaponNamesIn(batch) \ {""}
                      /\ row.all_weapons[a].n # 0

\* C25 witness: aspas over Scenario A and the second tie series: sheriff 2 at game
\* level and 2 in the segment of Scenario A and 1 at game level of the other series,
\* operator from a segment only, nothing for the tally without a name or for ghost 0.
C25_Witness ==
    /\ call = "done" /\ Value(result.weapons)
    /\ batch = <<SeriesA, SeriesTie2>> /\ team = TeamMIBR
    /\ LET row == result.weapons.player_analysis[1]
       IN  /\ row.player = Some("aspas")
           /\ Count(row.all_weapons, "sheriff") = 5
           /\ GameLevelKills(batch, row.player, "sheriff", team.name) = 3
           /\ SegmentLevelKills(batch, row.player, "sheriff", team.name) = 2
           /\ Count(row.all_weapons, "operator") = 2
           /\ GameLevelKills(batch, row.player, "operator", team.name) = 0
           /\ ~HasKey(row.all_weapons, "ghost") /\ ~HasKey(row.all_weapons, "")
           /\ "ghost" \in WeaponNamesIn(batch) /\ "" \in WeaponNamesIn(batch)

\* C26: all analyzers make the same scouted-team decision: for every observed and
\* scouted team name, empty and absent names included, the inline name test of
\* analyze_player_weapons and analyze_map_characters accepts a team exactly when
\* _is_target_team returns true.
C26_InlineTestAgreesWithRule ==
    Len(verdict) = 2 => ((verdict[2] = "match") <=> verdict[1])

\* C27: whenever the analysis section runs, the series list in session state was
\* fetched for the currently selected team: no sequence of Search Team and Scout
\* Team reaches a state in which the analyzers are called with one team's name or
\* id and a series list fetched for another team.
C27_SeriesListOfSelectedTeam ==
    (ui.phase = "session" /\ ui.shown # NotShown) =>
        /\ IsSome(ui.series_list)
        /\ ui.series_list.v.for_team = ui.args.team
        /\ ui.selected_team = Some(ui.args.team)

\* C28: for every player of the result of analyze_player_weapons: total_kills is
\* the sum of all_weapons; weapon_breakdown is a sub-mapping of all_weapons;
\* preferred_weapon_kills is the greatest count of all_weapons and at most
\* total_kills; series_played is at least 1.
C28_PlayerEntryConsistent ==
    (call = "done" /\ Value(result.weapons)) =>
        \A j \in 1..Len(result.weapons.player_analysis) :
            LET row == result.weapons.player_analysis[j]
                all == row.all_weapons
                top == row.weapon_breakdown
            IN  /\ row.total_kills = SumOver(LAMBDA e : e.n, all)
                /\ \A a \in 1..Len(top) :
                      /\ HasKey(all, top[a].k) /\ Count(all, top[a].k) = top[a].n
                      /\ \A b \in 1..Len(top) : a # b => top[a].k # top[b].k
                /\ \E a \in 1..Len(all) : all[a].n = row.preferred_weapon_kills
                /\ \A a \in 1..Len(all) : all[a].n <= row.preferred_weapon_kills
                /\ row.preferred_weapon_kills <= row.total_kills
                /\ row.series_played >= 1

\* C28 witness: aspas over the two tie series, five weapons at 2 kills each, of which
\* weapon_breakdown keeps three.
C28_Witness ==
    /\ call = "done" /\ Value(result.weapons)
    /\ batch = <<SeriesTie1, SeriesTie2>> /\ team = TeamMIBR
    /\ LET row == result.weapons.player_analysis[1]
       IN  /\ Len(row.all_weapons) = 5 /\ Len(row.weapon_breakdown) = 3
           /\ row.total_kills = 10 /\ row.preferred_weapon_kills = 2
           /\ row.series_played = 2

\* The places <<series, game, segment, team, player>> of a list of mock series at which a
\* player of that name, with the Valorant attributes, stands in a team of the target name.
SegmentsSeen(b, name, target) ==
    {p \in UNION {{<<s, g, r, t, q>> :
                      q \in 1..Len(b[s].series_state.v.games[g].segments[r].teams[t].players)} :
                  <<s, g, r, t>> \in
                      UNION {{<<s, g, r, t>> :
                                 t \in 1..Len(b[s].series_state.v.games[g].segments[r].teams)} :
                             <<s, g, r>> \in
                                 UNION {{<<s, g, r>> :
                                            r \in 1..Len(b[s].series_state.v.games[g].segments)} :
                                        <<s, g>> \in
                                            UNION {{<<s, g>> :
                                                       g \in 1..Len(b[s].series_state.v.games)} :
                                                   s \in {x \in 1..Len(b) :
                                                             IsSome(b[x].series_state)}}}}} :
        LET segment_team == b[p[1]].series_state.v.games[p[2]].segments[p[3]].teams[p[4]]
            player == segment_team.players[p[5]]
        IN  /\ segment_team.name = target
            /\ player.name = name
            /\ HasAttr(player.damageDealt)
            /\ HasAttr(player.headshots)}

\* The series of a list of mock series in which the player is seen.
SeriesSeen(b, name, target) == {p[1] : p \in SegmentsSeen(b, name, target)}

\* C29: in analyze_team_series_data series_played counts the segments in which the player
\* is seen: at every point of the loop it is the number of such segments in the series
\* processed so far, and in every entry of the result it equals total_rounds.
C29_SeriesPlayedIsTotalRounds ==
    /\ ds.phase \in {"loop", "done"} =>
          \A j \in 1..Len(ds.player_stats) :
             LET stats == ds.player_stats[j]
             IN  /\ stats.series_played = stats.total_rounds
                 /\ stats.series_played =
                        Cardinality(SegmentsSeen(SubSeq(ds.series_details, 1, ds.next - 1),
                                                 stats.k, ds.target_team_name))
    /\ ds.phase = "done" =>
          \A j \in 1..Len(ds.result.v.player_analysis) :
             ds.result.v.player_analysis[j].series_played =
                 ds.result.v.player_analysis[j].total_rounds

\* A returned entry whose series_played exceeds the number of series the player took part in.
C29_Witness ==
    /\ ds.phase = "done"
    /\ \E j \in 1..Len(ds.result.v.player_analysis) :
          LET row == ds.result.v.player_analysis[j]
          IN  /\ row.series_played = row.total_rounds
              /\ row.series_played >
                     Cardinality(SeriesSeen(ds.series_details, row.k, ds.target_team_name))
              /\ Cardinality(SeriesSeen(ds.series_details, row.k, ds.target_team_name)) >= 1

\* scouted is a substring of observed: observed is some letters, then scouted, then the rest.
IsSubstringOf(scouted, observed) ==
    \E a \in 0..Len(observed) :
       \E b \in a..Len(observed) :
          /\ b - a = Len(scouted)
          /\ \A k \in 1..Len(scouted) : observed[a + k] = scouted[k]

NonEmptyName(a) == IsSome(a) /\ a.v # <<>>

\* C30: for non-empty names _is_target_team(observed, scouted) is true exactly when
\* scouted is a substring of observed; whenever the equality clause or the prefix
\* clause holds, the substring clause holds as well.
C30_RuleIsSubstringTest ==
    (Len(verdict) >= 1 /\ NonEmptyName(obs.team_name) /\ NonEmptyName(obs.target_name)) =>
        /\ verdict[1] <=> IsSubstringOf(obs.target_name.v, obs.team_name.v)
        /\ (obs.team_name.v = obs.target_name.v \/ StartsWith(obs.team_name.v, obs.target_name.v))
              => IsSubstringOf(obs.target_name.v, obs.team_name.v)

\* The rule has answered True on a proper prefix: "MIBR (1)" observed, "MIBR" scouted.
C30_Witness ==
    /\ Len(verdict) >= 1
    /\ verdict[1]
    /\ obs.team_name = Some(N_MIBR1)
    /\ obs.target_name = Some(N_MIBR)

=============================================================================
